---- MODULE Spec2Model ----
(***************************************************************************)
(* State-machine model of the IoT device-management backend: the refresh   *)
(* ledger (app/services/auth_service.py), the device identity and token    *)
(* generation counter (app/services/device_service.py,                     *)
(* app/api/dependencies.py) and the ingestion gate                         *)
(* (app/services/reading_service.py).                                      *)
(*                                                                         *)
(* Time is an integer number of clock ticks, TicksPerSecond ticks to the   *)
(* second.  Strings of the program (secrets, passwords, tokens) are        *)
(* records tagged by "kind"; Python's None for an optional value is the    *)
(* empty sequence and a present value v is <<v>>.                          *)
(***************************************************************************)
EXTENDS Integers, Sequences, FiniteSets, TLC

\* ------------------------------------------------------------------ bounds
TicksPerSecond == 2
MaxDevices == 1
MaxVersion == 3
MaxDeviceTokens == 1
MaxRealReadings == 2
MaxReseedings == 1
MaxEmits == 1
MaxSubTicks == 2
MaxEpochs == 1
MaxUsers == 2
MaxLogins == 2
MaxRefreshTokens == 3
MaxWorkers == 2
MaxTicks == 2
MaxThreads == 2
MaxWaits == 1
MaxClientTokens == 2
MaxSessions == 2

\* ------------------------------------------------- configuration (Settings)
access_token_exp_minutes == 15
refresh_token_exp_minutes == 10080
device_token_exp_minutes == 5
data_payload_limit_bytes == 2048
min_seconds_between_readings == 1
max_readings_page_size == 100
jwt_secret_key == "super-hiper-secret-token"
jwt_refresh_secret_key == "refresh-super-hiper-secret-token"
jwt_device_secret_key == "device-secret"

None == <<>>
Some(v) == <<v>>
Minutes(m) == m * 60 * TicksPerSecond
\* jose writes exp and iat as whole seconds (timegm of the datetime)
WholeSecond(t) == t - (t % TicksPerSecond)

\* ------------------------------------------------------------------- state
VARIABLES
    clock,            \* datetime.now(tz=utc), in ticks
    users,            \* table users: id -> row
    refresh_tokens,   \* table refresh_tokens: id -> row
    devices,          \* table devices: id -> row
    readings,         \* table readings: sequence of rows in insertion order
    next_uuid,        \* source of fresh uuid4 / token_urlsafe values
    next_device_id,   \* source of fresh device ids (uuid4, never reused)
    secrets_issued,   \* device secrets handed out to clients
    device_tokens,    \* device access tokens handed out to clients
    refresh_issued,   \* refresh tokens handed out to clients
    reseedings,       \* number of re-seedings by update_device so far
    sim_sequence,     \* TelemetrySimulator._sequence: device id -> emitted count
    workers,          \* in-flight requests (per request session state) and
                      \* the simulator thread
    history,          \* first Refresh outcome per token, tokens logged out,
                      \* passwords chosen, devices rotated and not written since
    result,           \* outcome of the operation just completed
    security_events,  \* rows of security_events the last operation added
    events_writable   \* whether SecurityLogger's session can commit a row

vars == <<clock, users, refresh_tokens, devices, readings, next_uuid,
          next_device_id, secrets_issued, device_tokens, refresh_issued, reseedings,
          sim_sequence, workers, history, result, security_events,
          events_writable>>

\* ------------------------------------------------------ app/core/security.py
\* bcrypt reads at most the first 72 bytes of its input.  A JWT is longer:
\* its first 72 bytes are the header and the start of the claims, which for
\* the claim order of _create_token is {"sub":"<id>","token_type":"u...
First72(value) ==
    IF value.kind = "jwt"
    THEN [kind |-> "jwt72", sub |-> value.sub]
    ELSE IF value.kind = "long_password"
    THEN [value EXCEPT !.tail = ""]
    ELSE value

hash_secret(value) == [kind |-> "bcrypt", digest_of |-> First72(value)]

verify_secret(value, hashed) == hashed.digest_of = First72(value)

create_token(data, expires_minutes, secret_key, now, jti) ==
    [kind |-> "jwt", key |-> secret_key, sub |-> data.sub,
     token_type |-> data.token_type, role |-> data.role,
     token_version |-> data.token_version,
     exp |-> WholeSecond(now + Minutes(expires_minutes)),
     iat |-> WholeSecond(now), jti |-> jti]

create_user_access_token(sub, role, now, jti) ==
    create_token([sub |-> sub, token_type |-> "user_access",
                  role |-> Some(role), token_version |-> None],
                 access_token_exp_minutes, jwt_secret_key, now, jti)

create_user_refresh_token(sub, now, jti) ==
    create_token([sub |-> sub, token_type |-> "user_refresh",
                  role |-> None, token_version |-> None],
                 refresh_token_exp_minutes, jwt_refresh_secret_key, now, jti)

create_device_access_token(sub, token_version, now, jti) ==
    create_token([sub |-> sub, token_type |-> "device_access",
                  role |-> None, token_version |-> Some(token_version)],
                 device_token_exp_minutes, jwt_device_secret_key, now, jti)

\* The signing keys of a Settings object
Settings(access_key, refresh_key, device_key) ==
    [jwt_secret_key |-> access_key, jwt_refresh_secret_key |-> refresh_key,
     jwt_device_secret_key |-> device_key]

\* get_settings(): the configuration the service runs with
get_settings ==
    Settings(jwt_secret_key, jwt_refresh_secret_key, jwt_device_secret_key)

secrets_map_in(settings, expected_type) ==
    CASE expected_type = "user_access" -> settings.jwt_secret_key
      [] expected_type = "user_refresh" -> settings.jwt_refresh_secret_key
      [] expected_type = "device_access" -> settings.jwt_device_secret_key

secrets_map(expected_type) == secrets_map_in(get_settings, expected_type)

\* create_user_access_token / create_user_refresh_token /
\* create_device_access_token under the given settings: each forces its own
\* token_type into the claims and signs with its own key
create_token_in(settings, token_type, sub, now, jti) ==
    create_token([sub |-> sub, token_type |-> token_type,
                  role |-> IF token_type = "user_access"
                           THEN Some("user") ELSE None,
                  token_version |-> IF token_type = "device_access"
                                    THEN Some(1) ELSE None],
                 CASE token_type = "user_access" -> access_token_exp_minutes
                   [] token_type = "user_refresh" -> refresh_token_exp_minutes
                   [] token_type = "device_access" -> device_token_exp_minutes,
                 secrets_map_in(settings, token_type), now, jti)

\* Variant of decode_token_in without the token_type comparison
\* (sensitivity of C21)
decode_token_in_any_type(settings, token, expected_type, now) ==
    IF token.kind # "jwt" \/ token.key # secrets_map_in(settings, expected_type)
       \/ token.exp < WholeSecond(now)
    THEN [ok |-> FALSE, error |-> "InvalidToken"]
    ELSE [ok |-> TRUE, payload |-> token]

\* jwt.decode: signature under the expected key, then exp against the
\* current whole second; then the token_type tag.
decode_token_in(settings, token, expected_type, now) ==
    IF token.kind # "jwt" \/ token.key # secrets_map_in(settings, expected_type)
       \/ token.exp < WholeSecond(now)
    THEN [ok |-> FALSE, error |-> "InvalidToken"]
    ELSE IF token.token_type # expected_type
    THEN [ok |-> FALSE, error |-> "WrongAudience"]
    ELSE [ok |-> TRUE, payload |-> token]

\* decode_token with settings left to get_settings()
decode_token(token, expected_type, now) ==
    decode_token_in(get_settings, token, expected_type, now)

generate_device_secret(n) == [kind |-> "secret", n |-> n]

\* --------------------------------------------- app/services/device_profiles.py
\* interval_seconds of the categories the model creates devices in
DEVICE_CATEGORIES ==
    [weather_station |-> <<15, 45>>, ip_camera |-> <<10, 25>>]

Categories == DOMAIN DEVICE_CATEGORIES

\* -------------------------------------------- app/services/reading_service.py
\* A payload is a JSON object: data_bytes is the serialized length of its
\* ordinary members, sim the member "__simulated__" ("absent", "true" for the
\* JSON value true, "other" for any other value).
Payload(data_bytes, sim) == [data_bytes |-> data_bytes, sim |-> sim]

\* len(json.dumps(payload, separators=(",", ":")).encode("utf-8"))
payload_size(payload) ==
    2 + payload.data_bytes
      + (IF payload.sim = "absent" THEN 0
         ELSE (IF payload.data_bytes > 0 THEN 1 ELSE 0) + 16
              + (IF payload.sim = "true" THEN 4 ELSE 1))

is_simulated(reading) == reading.payload.sim = "true"

DeviceReadings(device_id) ==
    {i \in 1..Len(readings) : readings[i].device_id = device_id}

\* order_by(received_at.desc()).first(): a row of greatest received_at; which
\* one among equal timestamps is the store's choice.
LatestReadings(device_id) ==
    {i \in DeviceReadings(device_id) :
        \A j \in DeviceReadings(device_id) :
            readings[j].received_at <= readings[i].received_at}

\* Variant of create_reading_decision with the rate check ahead of the size
\* check (sensitivity of C10)
create_reading_decision_rate_first(device, payload, now, force, last_reading) ==
    IF ~force
       /\ device.last_reading_at # None
       /\ (now - device.last_reading_at[1])
            < min_seconds_between_readings * TicksPerSecond
       /\ (last_reading = None \/ ~is_simulated(readings[last_reading[1]]))
    THEN "RateLimited"
    ELSE IF payload_size(payload) > data_payload_limit_bytes
    THEN "PayloadTooLarge"
    ELSE "Created"

\* Variant of create_reading_decision whose rate check ignores whether the
\* last reading is simulated (sensitivity of C12)
create_reading_decision_rate_any(device, payload, now, force, last_reading) ==
    IF payload_size(payload) > data_payload_limit_bytes
    THEN "PayloadTooLarge"
    ELSE IF ~force
            /\ device.last_reading_at # None
            /\ (now - device.last_reading_at[1])
                 < min_seconds_between_readings * TicksPerSecond
    THEN "RateLimited"
    ELSE "Created"

\* The decision of create_reading (lines 69-106), given the row the
\* last-reading query returned (None when the device has no reading).
create_reading_decision(device, payload, now, force, last_reading) ==
    IF payload_size(payload) > data_payload_limit_bytes
    THEN "PayloadTooLarge"
    ELSE IF ~force
            /\ device.last_reading_at # None
            /\ (now - device.last_reading_at[1])
                 < min_seconds_between_readings * TicksPerSecond
            /\ (last_reading = None \/ ~is_simulated(readings[last_reading[1]]))
    THEN "RateLimited"
    ELSE "Created"

\* _ensure_owner
ensure_owner(device_id, requester) ==
    IF users[requester].role # "admin" /\ devices[device_id].owner_id # requester
    THEN "Forbidden"
    ELSE "OK"

Min(a, b) == IF a < b THEN a ELSE b

\* _readings_query with no since / until: the device's rows by received_at
\* descending, cut at limit.  Rows of equal received_at come in an order the
\* database chooses, so the page is any set of limit rows none of which is
\* older than a row left out.
readings_query(device_id, limit) ==
    LET rows == DeviceReadings(device_id)
    IN {page \in SUBSET rows :
          /\ Cardinality(page) = Min(limit, Cardinality(rows))
          /\ \A i \in page, j \in rows \ page :
                readings[i].received_at >= readings[j].received_at}

\* list_readings after _ensure_owner: the page, then the filter on simulated
\* rows
list_readings(device_id, limit, include_simulated) ==
    {IF include_simulated THEN page
     ELSE {i \in page : ~is_simulated(readings[i])} :
        page \in readings_query(device_id, limit)}

\* readings_meta after _ensure_owner: total_readings
readings_meta(device_id, include_simulated) ==
    Cardinality({i \in DeviceReadings(device_id) :
                    include_simulated \/ ~is_simulated(readings[i])})

\* The row create_reading persists (lines 108-118).
new_reading(device_id, payload, device_timestamp, now, mark_simulated) ==
    [device_id |-> device_id,
     device_timestamp |-> device_timestamp,
     received_at |-> now,
     payload |-> IF mark_simulated THEN [payload EXCEPT !.sim = "true"] ELSE payload,
     payload_size |-> payload_size(payload)]

LastReadingChoices(device_id) ==
    IF LatestReadings(device_id) = {} THEN {None}
    ELSE {Some(i) : i \in LatestReadings(device_id)}

\* seed_sample_readings over the six samples of _seed_initial_readings, whose
\* received times are now minus the running sum of the drawn intervals; the
\* rows are added oldest first.
seed_rows(device_id, now, interval) ==
    [k \in 1..6 |->
        LET received_at == now - (7 - k) * interval * TicksPerSecond
            payload == Payload(60, "true")
        IN [device_id |-> device_id,
            device_timestamp |-> Some(received_at),
            received_at |-> received_at,
            payload |-> payload,
            payload_size |-> payload_size(payload)]]

seed_last_received(now, interval) == now - interval * TicksPerSecond

\* --------------------------------------------- app/services/device_service.py
\* get_device: the access check every /devices/{id} route starts with
\* Variant of get_device without the owner-or-admin test (sensitivity of
\* C22)
get_device_any_requester(device_id, requester) ==
    IF device_id \notin DOMAIN devices THEN "NotFound" ELSE "OK"

get_device(device_id, requester) ==
    IF device_id \notin DOMAIN devices THEN "NotFound"
    ELSE IF users[requester].role # "admin"
            /\ devices[device_id].owner_id # requester
    THEN "Forbidden"
    ELSE "OK"

\* The row written by create_device (before seeding)
new_device(owner, name, category, secret) ==
    [name |-> name, category |-> category, owner_id |-> owner,
     status |-> "active", secret_hash |-> hash_secret(secret),
     token_version |-> 1, last_reading_at |-> None, deactivated_at |-> None]

\* Variant of deactivate_device without the version increment (sensitivity
\* of C6)
deactivate_device_keeps_version(device, now) ==
    [device EXCEPT !.status = "blocked", !.deactivated_at = Some(now)]

\* The row after deactivate_device
deactivate_device(device, now) ==
    [device EXCEPT !.status = "blocked",
                   !.deactivated_at = Some(now),
                   !.token_version = @ + 1]

\* Variant of rotate_secret that leaves last_reading_at as it is
\* (sensitivity of C23)
rotate_secret_keeps_window(device, secret) ==
    [device EXCEPT !.secret_hash = hash_secret(secret),
                   !.token_version = @ + 1,
                   !.status = "active",
                   !.deactivated_at = None]

\* Variant of rotate_secret that keeps the stored hash (sensitivity of C8)
rotate_secret_keeps_hash(device, secret) ==
    [device EXCEPT !.token_version = @ + 1,
                   !.status = "active",
                   !.deactivated_at = None,
                   !.last_reading_at = None]

\* The row after rotate_secret
rotate_secret(device, secret) ==
    [device EXCEPT !.secret_hash = hash_secret(secret),
                   !.token_version = @ + 1,
                   !.status = "active",
                   !.deactivated_at = None,
                   !.last_reading_at = None]

\* Variant of invalidate_tokens that also clears last_reading_at
\* (sensitivity of C9)
invalidate_tokens_resets_window(device) ==
    [device EXCEPT !.token_version = @ + 1, !.last_reading_at = None]

\* The row after invalidate_tokens
invalidate_tokens(device) ==
    [device EXCEPT !.token_version = @ + 1]

\* update_device, lines 124-131: name and category
update_device_fields(device, name, category) ==
    LET named == IF name # None THEN [device EXCEPT !.name = name[1]] ELSE device
    IN IF category # None /\ device.category # category[1]
       THEN [named EXCEPT !.category = category[1]]
       ELSE named

\* update_device, lines 132-139: status (other than deleted)
update_device_status(device, status, now) ==
    IF status = None THEN device
    ELSE IF status[1] = "blocked"
    THEN [device EXCEPT !.status = "blocked", !.deactivated_at = Some(now)]
    ELSE [device EXCEPT !.status = "active", !.deactivated_at = None]

\* issue_device_token: the outcome for a device id and a presented secret
issue_device_token(device_id, device_secret) ==
    IF device_id \notin DOMAIN devices THEN "Unauthorized"
    ELSE IF devices[device_id].status # "active" THEN "Forbidden"
    ELSE IF ~verify_secret(device_secret, devices[device_id].secret_hash)
    THEN "Unauthorized"
    ELSE "OK"

\* --------------------------------------------------- app/api/dependencies.py
\* Variant of get_device_from_token without the version comparison
\* (sensitivity of C3)
get_device_from_token_any_version(credentials, now) ==
    IF credentials = None THEN "Unauthorized"
    ELSE LET decoded == decode_token(credentials[1], "device_access", now)
         IN IF ~decoded.ok THEN "Unauthorized"
            ELSE IF decoded.payload.token_version = None THEN "Unauthorized"
            ELSE IF decoded.payload.sub \notin DOMAIN devices THEN "Unauthorized"
            ELSE IF devices[decoded.payload.sub].status # "active" THEN "Forbidden"
            ELSE "OK"

\* Variant of get_device_from_token without the status check (sensitivity
\* of C5)
get_device_from_token_any_status(credentials, now) ==
    IF credentials = None THEN "Unauthorized"
    ELSE LET decoded == decode_token(credentials[1], "device_access", now)
         IN IF ~decoded.ok THEN "Unauthorized"
            ELSE IF decoded.payload.token_version = None THEN "Unauthorized"
            ELSE IF decoded.payload.sub \notin DOMAIN devices THEN "Unauthorized"
            ELSE IF devices[decoded.payload.sub].token_version
                      # decoded.payload.token_version[1]
            THEN "Unauthorized"
            ELSE "OK"

get_device_from_token(credentials, now) ==
    IF credentials = None THEN "Unauthorized"
    ELSE LET decoded == decode_token(credentials[1], "device_access", now)
         IN IF ~decoded.ok THEN "Unauthorized"
            ELSE IF decoded.payload.token_version = None THEN "Unauthorized"
            ELSE IF decoded.payload.sub \notin DOMAIN devices THEN "Unauthorized"
            ELSE IF devices[decoded.payload.sub].status # "active" THEN "Forbidden"
            ELSE IF devices[decoded.payload.sub].token_version
                      # decoded.payload.token_version[1]
            THEN "Unauthorized"
            ELSE "OK"

\* ----------------------------------------------- app/services/auth_service.py
\* Variant of lower that leaves the address as typed (sensitivity of C18)
lower_as_typed(email) == email

\* str.lower() on the e-mail addresses the model registers and logs in with
lower(email) ==
    CASE email = "A@X.COM" -> "a@x.com"
      [] email = "B@X.COM" -> "b@x.com"
      [] email = "ADMIN@EXAMPLE.COM" -> "admin@example.com"
      [] OTHER -> email

\* INTEGER PRIMARY KEY of SQLite: one more than the greatest id in the table
NextRowId(table) ==
    IF DOMAIN table = {} THEN 1
    ELSE 1 + CHOOSE m \in DOMAIN table : \A k \in DOMAIN table : k <= m

UsersByEmail(email) == {u \in DOMAIN users : users[u].email = email}

\* authenticate_user: the user's id, or None for the 401
authenticate_user(email, password) ==
    LET found == UsersByEmail(lower(email))
    IN IF found = {} THEN None
       ELSE LET user == CHOOSE u \in found : TRUE
            IN IF ~verify_secret(password, users[user].password_hash)
               THEN None
               ELSE Some(user)

\* create_token_pair, lines 73-77: the two tokens, each with its own uuid4
token_pair(user, now, uuid) ==
    [access_token |-> create_user_access_token(user, users[user].role, now, uuid),
     refresh_token |-> create_user_refresh_token(user, now, uuid + 1)]

\* create_token_pair, lines 79-86: the ledger row of a refresh token
refresh_entry(user, refresh_token, now) ==
    LET decoded_refresh == decode_token(refresh_token, "user_refresh", now)
    IN [user_id |-> user,
        token_jti |-> decoded_refresh.payload.jti,
        token_hash |-> hash_secret(refresh_token),
        expires_at |-> decoded_refresh.payload.exp,
        revoked |-> FALSE]

\* Variant of ActiveEntries without the revoked condition (sensitivity of C1)
ActiveEntries_any_revoked(user_id, token_jti) ==
    {id \in DOMAIN refresh_tokens :
        /\ refresh_tokens[id].user_id = user_id
        /\ refresh_tokens[id].token_jti = token_jti}

\* the select of refresh (lines 126-136)
ActiveEntries(user_id, token_jti) ==
    {id \in DOMAIN refresh_tokens :
        /\ refresh_tokens[id].user_id = user_id
        /\ refresh_tokens[id].token_jti = token_jti
        /\ ~refresh_tokens[id].revoked}

\* the select of logout (lines 175-185): no condition on revoked
LogoutEntries(user_id, token_jti) ==
    {id \in DOMAIN refresh_tokens :
        /\ refresh_tokens[id].user_id = user_id
        /\ refresh_tokens[id].token_jti = token_jti}

\* Variant of logout_lookup without the owner check (sensitivity of C13)
logout_lookup_any_owner(refresh_token, user_id, now) ==
    LET decoded == decode_token(refresh_token, "user_refresh", now)
    IN IF ~decoded.ok
       THEN [status |-> "BadRequest", detail |-> decoded.error, entry |-> None]
       ELSE LET found == LogoutEntries(decoded.payload.sub, decoded.payload.jti)
            IN IF found = {}
               THEN [status |-> "BadRequest", detail |-> "AlreadyLoggedOut",
                     entry |-> None]
               ELSE [status |-> "OK", detail |-> "OK",
                     entry |-> Some(CHOOSE id \in found : TRUE)]

\* logout, lines 168-195: decode, owner check and ledger lookup
logout_lookup(refresh_token, user_id, now) ==
    LET decoded == decode_token(refresh_token, "user_refresh", now)
    IN IF ~decoded.ok
       THEN [status |-> "BadRequest", detail |-> decoded.error, entry |-> None]
       ELSE IF decoded.payload.sub # user_id
       THEN [status |-> "Forbidden", detail |-> "Forbidden", entry |-> None]
       ELSE LET found == LogoutEntries(user_id, decoded.payload.jti)
            IN IF found = {}
               THEN [status |-> "BadRequest", detail |-> "AlreadyLoggedOut",
                     entry |-> None]
               ELSE [status |-> "OK", detail |-> "OK",
                     entry |-> Some(CHOOSE id \in found : TRUE)]

\* refresh, lines 111-138: decode and ledger lookup
refresh_lookup(refresh_token, now) ==
    LET decoded == decode_token(refresh_token, "user_refresh", now)
    IN IF ~decoded.ok
       THEN [status |-> "Unauthorized", detail |-> decoded.error, entry |-> None]
       ELSE LET found == ActiveEntries(decoded.payload.sub, decoded.payload.jti)
            IN IF found = {}
               THEN [status |-> "Unauthorized", detail |-> "inactive",
                     entry |-> None]
               ELSE [status |-> "found", detail |-> "found",
                     entry |-> Some(CHOOSE id \in found : TRUE)]

\* Variant of refresh_entry_check without the expiry test (sensitivity of
\* C15)
refresh_entry_check_no_expiry(refresh_token, entry, now) ==
    IF ~verify_secret(refresh_token, entry.token_hash) THEN "rejected"
    ELSE "ok"

\* Variant of refresh_entry_check without the hash test (sensitivity of
\* C16)
refresh_entry_check_no_hash(refresh_token, entry, now) ==
    IF entry.expires_at < now THEN "expired"
    ELSE "ok"

\* refresh, lines 139-149: the checks on the row found
refresh_entry_check(refresh_token, entry, now) ==
    IF entry.expires_at < now THEN "expired"
    ELSE IF ~verify_secret(refresh_token, entry.token_hash) THEN "rejected"
    ELSE "ok"

\* the rows of the ledger after the commit of create_token_pair in a session
\* that has set revoked on the row it found
rotated(entry_id, user, refresh_token, now) ==
    LET revoked == [refresh_tokens EXCEPT ![entry_id].revoked = TRUE]
    IN revoked @@ (NextRowId(refresh_tokens) :>
                      refresh_entry(user, refresh_token, now))

\* ------------------------------------------------------------ initial states
Password(text) == [kind |-> "password", text |-> text]

\* A password of more than 72 bytes (the schema admits 128 characters): its
\* first 72 bytes and what follows them
LongPassword(tail) ==
    [kind |-> "long_password", head |-> "first 72 bytes", tail |-> tail]

new_user(email, password, role) ==
    [email |-> email, password_hash |-> hash_secret(password), role |-> role]

\* ensure_admin_exists on an empty store
bootstrap_admin == new_user("admin@example.com", Password("Admin123!"), "admin")

NoInput == [none |-> TRUE]
NoHistory ==
    [first_refresh |-> <<>>, logged_out |-> {}, rotated |-> {},
     credentials |-> (1 :> Password("Admin123!"))]
NoResult == [op |-> "none", status |-> "none", device_id |-> 0, input |-> NoInput]

\* The store after start-up: the bootstrap admin and nothing else
Init ==
    /\ clock = 0
    /\ users = (1 :> bootstrap_admin)
    /\ refresh_tokens = <<>>
    /\ devices = <<>>
    /\ readings = <<>>
    /\ next_uuid = 1
    /\ next_device_id = 1
    /\ secrets_issued = {}
    /\ device_tokens = {}
    /\ refresh_issued = {}
    /\ reseedings = 0
    /\ sim_sequence = <<>>
    /\ workers = <<>>
    /\ history = NoHistory
    /\ result = NoResult
    /\ security_events = <<>>
    /\ events_writable = TRUE

\* The store after start-up and the registration of two ordinary users
InitDevices ==
    /\ clock = 0
    /\ users = (1 :> bootstrap_admin)
                 @@ (2 :> new_user("a@x.com", Password("Passw0rd!"), "user"))
                 @@ (3 :> new_user("b@x.com", Password("Passw0rd?"), "user"))
    /\ refresh_tokens = <<>>
    /\ devices = <<>>
    /\ readings = <<>>
    /\ next_uuid = 1
    /\ next_device_id = 1
    /\ secrets_issued = {}
    /\ device_tokens = {}
    /\ refresh_issued = {}
    /\ reseedings = 0
    /\ sim_sequence = <<>>
    /\ workers = <<>>
    /\ history = [NoHistory EXCEPT !.credentials =
                        @ @@ (2 :> Password("Passw0rd!"))
                          @@ (3 :> Password("Passw0rd?"))]
    /\ result = NoResult
    /\ security_events = <<>>
    /\ events_writable = TRUE

\* TelemetrySimulator after start(): a thread (pc, now, loaded, pending,
\* ticks) and, in the record of the first thread, the fields of the object:
\* its stop event, the call of stop() (none, joining, returned), _thread
\* (the index of the thread in workers, 0 for None) and the setting
\* telemetry_simulation_enabled
Simulator(pc, now, loaded, pending, ticks, stop_event, stop, stop_at) ==
    [pc |-> pc, op |-> "simulator", now |-> now, loaded |-> loaded,
     pending |-> pending, ticks |-> ticks, stop_event |-> stop_event,
     stop |-> stop, stop_at |-> stop_at, thread |-> 1, enabled |-> TRUE]

\* The store after start-up, the registration of two ordinary users and the
\* creation of two devices by the first of them; the simulator thread is
\* started and has not run a tick yet
InitFleet ==
    /\ clock = 0
    /\ users = (1 :> bootstrap_admin)
                 @@ (2 :> new_user("a@x.com", Password("Passw0rd!"), "user"))
                 @@ (3 :> new_user("b@x.com", Password("Passw0rd?"), "user"))
    /\ refresh_tokens = <<>>
    /\ devices =
          [id \in {1, 2} |->
              [new_device(2, "Sensor", "weather_station",
                          generate_device_secret(id))
                  EXCEPT !.last_reading_at =
                            Some(seed_last_received(
                                    0, DEVICE_CATEGORIES.weather_station[1]))]]
    /\ readings =
          seed_rows(1, 0, DEVICE_CATEGORIES.weather_station[1])
             \o seed_rows(2, 0, DEVICE_CATEGORIES.weather_station[1])
    /\ next_uuid = 3
    /\ next_device_id = 3
    /\ secrets_issued = {generate_device_secret(1), generate_device_secret(2)}
    /\ device_tokens = {}
    /\ refresh_issued = {}
    /\ reseedings = 0
    /\ sim_sequence = <<>>
    /\ workers = <<Simulator("sleeping", 0, <<>>, {}, 0, FALSE, "none", 0)>>
    /\ history = [NoHistory EXCEPT !.credentials =
                        @ @@ (2 :> Password("Passw0rd!"))
                          @@ (3 :> Password("Passw0rd?"))]
    /\ result = NoResult
    /\ security_events = <<>>
    /\ events_writable = TRUE

\* ------------------------------------------------------------- input domains
DeviceIds == 1..MaxDevices
Names == {"Sensor"}
NewNames == {None, Some("Gate")}
NewCategories == {None, Some("ip_camera")}
\* rng.randint(lo, hi): the model draws the lower end for each of the six
\* intervals of one seeding
SeedIntervals(category) == {DEVICE_CATEGORIES[category][1]}
AtLimit == Payload(data_payload_limit_bytes - 2, "absent")
Oversized == Payload(data_payload_limit_bytes - 1, "absent")
Small == Payload(9, "absent")
Payloads == {Small, AtLimit, Oversized}
SecretsTried == secrets_issued \cup {generate_device_secret(0)}
Credentials == {None} \cup {Some(t) : t \in device_tokens}
\* device_timestamp of ReadingCreateRequest: absent, long past, in the future
DeviceTimestamps ==
    {None, Some(0), Some(clock + min_seconds_between_readings * TicksPerSecond)}
NewStatuses == {None, Some("active"), Some("blocked"), Some("deleted")}
TokenTypes == {"user_access", "user_refresh", "device_access"}
\* key configurations: the defaults, and keys shared between token classes
KeySettings ==
    {get_settings,
     Settings("shared", "shared", "shared"),
     Settings("shared", "shared", "device-secret"),
     Settings("shared", "refresh", "shared"),
     Settings("access", "shared", "shared")}
Emails == {"a@x.com", "A@X.COM"}
LoginEmails == {"admin@example.com", "a@x.com"}
Passwords == {Password("Admin123!"), Password("Passw0rd!")}
RegisterPasswords == {Password("Passw0rd!"), LongPassword("a")}
LoginPasswords == {Password("Passw0rd!"), LongPassword("a"), LongPassword("b")}
NewEmails == {None, Some("B@X.COM"), Some("ADMIN@EXAMPLE.COM")}
NewRoles == {None, Some("admin")}

AuthUnchanged ==
    UNCHANGED <<users, refresh_tokens, refresh_issued, workers, history>>

LedgerUnchanged ==
    UNCHANGED <<users, refresh_tokens, refresh_issued, workers>>

DevicesUnchanged ==
    UNCHANGED <<devices, readings, next_device_id, secrets_issued,
                device_tokens, reseedings, sim_sequence>>

\* self._sequence.get(device.id, 0)
sequence_of(device_id) ==
    IF device_id \in DOMAIN sim_sequence THEN sim_sequence[device_id] ELSE 0

RealReadings == {i \in 1..Len(readings) : ~is_simulated(readings[i])}
SimulatedReadings == {i \in 1..Len(readings) : is_simulated(readings[i])}

Outcome(op, status, device_id, input) ==
    [op |-> op, status |-> status, device_id |-> device_id, input |-> input]

\* ------------------------------------------ app/services/logging_service.py
\* The row SecurityLogger.log builds (lines 26-32)
SecurityEvent(actor_type, event_type, status) ==
    [actor_type |-> actor_type, event_type |-> event_type, status |-> status]

\* Variant of log that lets the exception of a failed write out
\* (sensitivity of C19)
log_raising(events, entry, writable) ==
    [rows |-> IF writable THEN Append(events.rows, entry) ELSE events.rows,
     raised |-> events.raised \/ ~writable]

\* SecurityLogger.log: the row is added and committed in a session of its
\* own; an exception of that session is caught and dropped (lines 35-37)
log(events, entry, writable) ==
    [rows |-> IF writable THEN Append(events.rows, entry) ELSE events.rows,
     raised |-> events.raised]

\* The logger.log calls a handler makes on its way to an outcome, in order
log_calls(op, status, input) ==
    CASE op = "register" /\ status = "Created" ->
            <<SecurityEvent("user", "register", "success")>>
      [] op = "login" /\ status = "Unauthorized" ->
            <<SecurityEvent("user", "login", "denied")>>
      [] op = "login" /\ status = "OK" ->
            <<SecurityEvent("user", "login", "success")>>
      [] op = "refresh" /\ status = "Unauthorized"
            /\ input.detail \in {"InvalidToken", "WrongAudience"} ->
            <<SecurityEvent("user", "refresh", "denied")>>
      [] op = "refresh" /\ status = "OK" ->
            <<SecurityEvent("user", "refresh", "success")>>
      [] op = "logout" /\ status = "OK" ->
            <<SecurityEvent("user", "logout", "success")>>
      [] op = "delete_user" /\ status = "OK" ->
            <<SecurityEvent("admin", "user_delete", "success")>>
      [] op = "update_user" /\ status = "OK" ->
            <<SecurityEvent("admin", "user_update", "success")>>
      [] op = "create_device" /\ status = "Created" ->
            <<SecurityEvent("user", "device_create", "success"),
              SecurityEvent("system", "reading_seed", "success")>>
      [] op = "deactivate_device" /\ status = "OK" ->
            <<SecurityEvent("user", "device_block", "success")>>
      [] op = "delete_device" /\ status = "OK" ->
            <<SecurityEvent("user", "device_delete", "success")>>
      [] op = "update_device" /\ status = "OK" ->
            (IF input.reseed
             THEN <<SecurityEvent("system", "reading_seed", "success")>>
             ELSE <<>>)
            \o <<SecurityEvent("user", "device_update", "success")>>
      [] op = "update_device" /\ status = "BadRequest" /\ input.reseed ->
            <<SecurityEvent("system", "reading_seed", "success")>>
      [] op = "rotate_secret" /\ status = "OK" ->
            <<SecurityEvent("user", "device_secret_rotate", "success")>>
      [] op = "invalidate_tokens" /\ status = "OK" ->
            <<SecurityEvent("user", "device_token_invalidate", "success")>>
      [] op = "issue_device_token" /\ status = "Unauthorized" ->
            <<SecurityEvent("device", "device_auth", "denied")>>
      [] op = "issue_device_token" /\ status = "OK" ->
            <<SecurityEvent("device", "device_auth", "success")>>
      [] op \in {"submit_reading", "simulator_emit"}
            /\ status = "PayloadTooLarge" ->
            <<SecurityEvent("device", "reading_reject", "denied")>>
      [] op \in {"submit_reading", "simulator_emit"}
            /\ status = "RateLimited" ->
            <<SecurityEvent("device", "reading_rate_limit", "denied")>>
      [] op \in {"submit_reading", "simulator_emit"} /\ status = "Created" ->
            <<SecurityEvent("device", "reading_accept", "success")>>
      [] OTHER -> <<>>

RECURSIVE logged(_, _, _)
logged(events, calls, writable) ==
    IF calls = <<>> THEN events
    ELSE logged(log(events, Head(calls), writable), Tail(calls), writable)

\* What the caller of a handler gets: its outcome, or the exception that came
\* out of one of its logger.log calls
Observed(op, status, device_id, input, writable) ==
    IF logged([rows |-> <<>>, raised |-> FALSE],
              log_calls(op, status, input), writable).raised
    THEN Outcome(op, "InternalError", device_id, input)
    ELSE Outcome(op, status, device_id, input)

\* The handler answers: the outcome and the rows its log calls wrote
Respond(op, status, device_id, input) ==
    /\ result' = Observed(op, status, device_id, input, events_writable)
    /\ security_events' =
          logged([rows |-> <<>>, raised |-> FALSE],
                 log_calls(op, status, input), events_writable).rows
    /\ UNCHANGED events_writable

\* A step that is not an operation of the service
NoResponse ==
    /\ result' = NoResult
    /\ security_events' = <<>>
    /\ UNCHANGED events_writable

\* ------------------------------------------- routes of app/api/routes/devices.py
CreateDevice(owner, name, category, interval) ==
    /\ owner \in DOMAIN users
    /\ next_device_id <= MaxDevices
    /\ LET id == next_device_id
           secret == generate_device_secret(next_uuid)
           row == new_device(owner, name, category, secret)
       IN /\ devices' = devices @@ (id :>
                [row EXCEPT !.last_reading_at =
                                Some(seed_last_received(clock, interval))])
          /\ readings' = readings \o seed_rows(id, clock, interval)
          /\ secrets_issued' = secrets_issued \cup {secret}
          /\ Respond("create_device", "Created", id, [secret |-> secret])
    /\ next_device_id' = next_device_id + 1
    /\ next_uuid' = next_uuid + 1
    /\ UNCHANGED <<clock, device_tokens, reseedings, sim_sequence>>
    /\ AuthUnchanged

Rejected(op, device_id, status) ==
    /\ Respond(op, status, device_id, NoInput)
    /\ UNCHANGED <<clock, devices, readings, next_uuid, next_device_id,
                   secrets_issued, device_tokens, reseedings, sim_sequence>>
    /\ AuthUnchanged

DeactivateDevice(device_id, requester) ==
    LET access == get_device(device_id, requester)
    IN IF access # "OK" THEN Rejected("deactivate_device", device_id, access)
       ELSE IF devices[device_id].status = "deleted"
       THEN Rejected("deactivate_device", device_id, "BadRequest")
       ELSE /\ devices[device_id].token_version < MaxVersion
            /\ devices' = [devices EXCEPT
                              ![device_id] = deactivate_device(@, clock)]
            /\ Respond("deactivate_device", "OK", device_id, NoInput)
            /\ UNCHANGED <<clock, readings, next_uuid, next_device_id,
                           secrets_issued, device_tokens, reseedings, sim_sequence>>
            /\ AuthUnchanged

DeleteDevice(device_id, requester) ==
    LET access == get_device(device_id, requester)
    IN IF access # "OK" THEN Rejected("delete_device", device_id, access)
       ELSE /\ devices' = [d \in DOMAIN devices \ {device_id} |-> devices[d]]
            /\ readings' = SelectSeq(readings, LAMBDA r : r.device_id # device_id)
            /\ Respond("delete_device", "OK", device_id, NoInput)
            /\ UNCHANGED <<clock, next_uuid, next_device_id, secrets_issued,
                           device_tokens, reseedings, sim_sequence>>
            /\ AuthUnchanged

UpdateDevice(device_id, requester, name, category, status, interval) ==
    LET access == get_device(device_id, requester)
    IN IF access # "OK" THEN Rejected("update_device", device_id, access)
       ELSE
       LET device == devices[device_id]
           reseed == category # None /\ device.category # category[1]
           fields == update_device_fields(device, name, category)
           \* _seed_initial_readings commits the session: the new name, the
           \* new category, the seeded rows and last_reading_at
           seeded == IF reseed
                     THEN [fields EXCEPT !.last_reading_at =
                                  Some(seed_last_received(clock, interval))]
                     ELSE fields
           rows == IF reseed THEN seed_rows(device_id, clock, interval) ELSE <<>>
       IN /\ reseed => reseedings < MaxReseedings
          /\ reseedings' = IF reseed THEN reseedings + 1 ELSE reseedings
          /\ IF status = Some("deleted")
             THEN /\ devices' = IF reseed
                                THEN [devices EXCEPT ![device_id] = seeded]
                                ELSE devices
                  /\ Respond("update_device", "BadRequest", device_id,
                             [reseed |-> reseed])
             ELSE /\ devices' = [devices EXCEPT ![device_id] =
                                    update_device_status(seeded, status, clock)]
                  /\ Respond("update_device", "OK", device_id,
                             [reseed |-> reseed])
          /\ readings' = readings \o rows
          /\ UNCHANGED <<clock, next_uuid, next_device_id, secrets_issued,
                         device_tokens, sim_sequence>>
          /\ AuthUnchanged

RotateDeviceSecret(device_id, requester) ==
    LET access == get_device(device_id, requester)
    IN IF access # "OK" THEN Rejected("rotate_secret", device_id, access)
       ELSE LET secret == generate_device_secret(next_uuid)
            IN /\ devices[device_id].token_version < MaxVersion
               /\ devices' = [devices EXCEPT
                                 ![device_id] = rotate_secret(@, secret)]
               /\ secrets_issued' = secrets_issued \cup {secret}
               /\ next_uuid' = next_uuid + 1
               /\ Respond("rotate_secret", "OK", device_id, [secret |-> secret])
               /\ history' = [history EXCEPT !.rotated = @ \cup {device_id}]
               /\ UNCHANGED <<clock, readings, next_device_id, device_tokens,
                              reseedings, sim_sequence>>
               /\ LedgerUnchanged

InvalidateDeviceTokens(device_id, requester) ==
    LET access == get_device(device_id, requester)
    IN IF access # "OK" THEN Rejected("invalidate_tokens", device_id, access)
       ELSE /\ devices[device_id].token_version < MaxVersion
            /\ devices' = [devices EXCEPT
                              ![device_id] = invalidate_tokens(@)]
            /\ Respond("invalidate_tokens", "OK", device_id, NoInput)
            /\ UNCHANGED <<clock, readings, next_uuid, next_device_id,
                           secrets_issued, device_tokens, reseedings, sim_sequence>>
            /\ AuthUnchanged

\* GET /devices/{device_id}
GetDevice(device_id, requester) ==
    LET access == get_device(device_id, requester)
    IN /\ Respond("get_device", access, device_id, [requester |-> requester])
       /\ UNCHANGED <<clock, devices, readings, next_uuid, next_device_id,
                      secrets_issued, device_tokens, reseedings, sim_sequence>>
       /\ AuthUnchanged

\* GET /devices/{device_id}/readings
ListDeviceReadings(device_id, requester, limit, include_simulated) ==
    LET effective_limit == Min(limit, max_readings_page_size)
        access == get_device(device_id, requester)
        owner == IF access = "OK" THEN ensure_owner(device_id, requester)
                 ELSE access
    IN /\ IF owner # "OK"
          THEN Respond("list_readings", owner, device_id,
                       [requester |-> requester, limit |-> limit,
                        include_simulated |-> include_simulated, rows |-> {}])
          ELSE \E rows \in list_readings(device_id, effective_limit,
                                          include_simulated) :
                  Respond("list_readings", "OK", device_id,
                          [requester |-> requester, limit |-> limit,
                           include_simulated |-> include_simulated,
                           rows |-> {readings[i] : i \in rows}])
       /\ UNCHANGED <<clock, devices, readings, next_uuid, next_device_id,
                      secrets_issued, device_tokens, reseedings, sim_sequence>>
       /\ AuthUnchanged

\* GET /devices/{device_id}/readings/meta
DeviceReadingsMeta(device_id, requester, include_simulated) ==
    LET access == get_device(device_id, requester)
        owner == IF access = "OK" THEN ensure_owner(device_id, requester)
                 ELSE access
    IN /\ Respond("readings_meta", owner, device_id,
                  [requester |-> requester,
                   include_simulated |-> include_simulated,
                   total_readings |-> IF owner = "OK"
                                      THEN readings_meta(device_id,
                                                         include_simulated)
                                      ELSE 0])
       /\ UNCHANGED <<clock, devices, readings, next_uuid, next_device_id,
                      secrets_issued, device_tokens, reseedings, sim_sequence>>
       /\ AuthUnchanged

\* --------------------------------------- routes of app/api/routes/device_data.py
\* The client keeps at most MaxDeviceTokens tokens: a new one replaces one
\* of those it holds.
Kept(token) ==
    IF Cardinality(device_tokens) < MaxDeviceTokens
    THEN {device_tokens \cup {token}}
    ELSE {(device_tokens \ {old}) \cup {token} : old \in device_tokens}

IssueDeviceToken(device_id, device_secret) ==
    LET outcome == issue_device_token(device_id, device_secret)
    IN /\ Respond("issue_device_token", outcome, device_id,
                             [device_secret |-> device_secret])
       /\ IF outcome = "OK"
          THEN device_tokens' \in Kept(create_device_access_token(
                   device_id, devices[device_id].token_version, clock, None))
          ELSE UNCHANGED device_tokens
       /\ UNCHANGED <<clock, devices, readings, next_uuid, next_device_id,
                      secrets_issued, reseedings, sim_sequence>>
       /\ AuthUnchanged

\* Variant: the device's timestamp, when given, is taken for the time of
\* the reading
CreateReading_device_clock(op, device_id, credentials, payload, device_timestamp, now, force, mark_simulated, last_reading) ==
    LET device_now == IF device_timestamp = None THEN now
                      ELSE device_timestamp[1]
        outcome == create_reading_decision(devices[device_id], payload,
                                           device_now, force, last_reading)
    IN /\ Respond(op, outcome, device_id,
                             [credentials |-> credentials, payload |-> payload,
                              force |-> force])
       /\ IF outcome = "Created"
          THEN /\ readings' = Append(readings,
                      new_reading(device_id, payload, device_timestamp,
                                  device_now, mark_simulated))
               /\ devices' = [devices EXCEPT
                                 ![device_id].last_reading_at = Some(device_now)]
               /\ history' = [history EXCEPT !.rotated = @ \ {device_id}]
          ELSE UNCHANGED <<devices, readings, history>>

\* Variant: the timestamp of the attempt is stored whatever the outcome
CreateReading_stamping_rejections(op, device_id, credentials, payload, device_timestamp, now, force, mark_simulated, last_reading) ==
    LET outcome == create_reading_decision(devices[device_id], payload, now,
                                           force, last_reading)
    IN /\ Respond(op, outcome, device_id,
                             [credentials |-> credentials, payload |-> payload,
                              force |-> force])
       /\ devices' = [devices EXCEPT ![device_id].last_reading_at = Some(now)]
       /\ IF outcome = "Created"
          THEN /\ readings' = Append(readings,
                      new_reading(device_id, payload, device_timestamp, now,
                                  mark_simulated))
               /\ history' = [history EXCEPT !.rotated = @ \ {device_id}]
          ELSE UNCHANGED <<readings, history>>

\* create_reading applied to the store; last_reading is the row its
\* last-reading query returned
CreateReading(op, device_id, credentials, payload, device_timestamp, now, force, mark_simulated, last_reading) ==
    LET outcome == create_reading_decision(devices[device_id], payload, now,
                                           force, last_reading)
    IN /\ Respond(op, outcome, device_id,
                             [credentials |-> credentials, payload |-> payload,
                              force |-> force])
       /\ IF outcome = "Created"
          THEN /\ readings' = Append(readings,
                      new_reading(device_id, payload, device_timestamp, now,
                                  mark_simulated))
               /\ devices' = [devices EXCEPT
                                 ![device_id].last_reading_at = Some(now)]
               /\ history' = [history EXCEPT !.rotated = @ \ {device_id}]
          ELSE UNCHANGED <<devices, readings, history>>

SubmitDeviceReading(credentials, payload, device_timestamp) ==
    LET auth == get_device_from_token(credentials, clock)
    IN /\ IF auth # "OK"
          THEN /\ Respond("submit_reading", auth, 0,
                                     [credentials |-> credentials,
                                      payload |-> payload, force |-> FALSE])
               /\ UNCHANGED <<devices, readings, history>>
          ELSE /\ Cardinality(RealReadings) < MaxRealReadings
               /\ \E last_reading \in LastReadingChoices(credentials[1].sub) :
                     CreateReading("submit_reading", credentials[1].sub,
                                   credentials, payload, device_timestamp,
                                   clock, FALSE, FALSE, last_reading)
       /\ UNCHANGED <<clock, next_uuid, next_device_id, secrets_issued,
                      device_tokens, reseedings, sim_sequence>>
       /\ LedgerUnchanged

\* The row after the UPDATE of a session that loaded `loaded` and holds
\* `changed`
flushed(current, loaded, changed) ==
    [f \in DOMAIN current |->
        IF changed[f] # loaded[f] THEN changed[f] ELSE current[f]]

\* ------------------------------------------------ app/services/simulator.py
\* One device's turn in _tick (lines 72-91) when its emission is due
SimulatorEmit(device_id, payload) ==
    /\ device_id \in DOMAIN devices
    /\ devices[device_id].status = "active"
    /\ sequence_of(device_id) < MaxEmits
    /\ CreateReading("simulator_emit", device_id, None, payload, Some(clock),
                     clock, TRUE, TRUE, None)
    \* a rejected create_reading raises out of _tick before the bookkeeping
    /\ sim_sequence' =
          IF result'.status = "Created"
          THEN [d \in DOMAIN sim_sequence \cup {device_id} |->
                   IF d = device_id THEN sequence_of(device_id) + 1
                   ELSE sim_sequence[d]]
          ELSE sim_sequence
    /\ UNCHANGED <<clock, next_uuid, next_device_id, secrets_issued,
                   device_tokens, reseedings>>
    /\ LedgerUnchanged

\* The simulator thread.  _run (lines 48-54) tests the stop event between
\* ticks only; _tick loads the active devices once (lines 60-64) and then
\* works on the loaded objects.
ActiveDevices == {d \in DOMAIN devices : devices[d].status = "active"}

\* _tick, lines 57-70: now, the query of the active devices, the pruning of
\* _next_emit / _sequence / _random_cache
SimTickStart(t) ==
    /\ t \in DOMAIN workers
    /\ workers[t].pc = "sleeping"
    /\ ~workers[1].stop_event
    /\ workers[t].ticks < MaxTicks
    /\ workers' = [workers EXCEPT
          ![t].pc = "running", ![t].now = clock,
          ![t].loaded = [d \in ActiveDevices |-> devices[d]],
          ![t].pending = ActiveDevices, ![t].ticks = @ + 1]
    /\ sim_sequence' =
          [d \in DOMAIN sim_sequence \cap ActiveDevices |-> sim_sequence[d]]
    /\ Respond("simulator_tick", "Started", 0, NoInput)
    /\ UNCHANGED <<clock, devices, readings, next_uuid, next_device_id,
                   secrets_issued, device_tokens, reseedings>>
    /\ UNCHANGED <<users, refresh_tokens, refresh_issued, history>>

\* _tick, lines 72-91, for one of the loaded devices.  A device with an entry
\* in _next_emit is not due again within the time the model covers.  The
\* commit of create_reading updates last_reading_at of the loaded device: the
\* ORM raises StaleDataError when the row is gone, which ends the tick
\* (_run, lines 50-53).
SimTickEmit(t, device_id) ==
    /\ t \in DOMAIN workers
    /\ workers[t].pc = "running"
    /\ device_id \in workers[t].pending
    /\ LET now == workers[t].now
           loaded == workers[t].loaded[device_id]
           input == [credentials |-> None, payload |-> Small, force |-> TRUE]
       IN IF device_id \in DOMAIN sim_sequence
          THEN /\ Respond("simulator_emit", "NotDue", device_id, input)
               /\ workers' = [workers EXCEPT ![t].pending = @ \ {device_id}]
               /\ UNCHANGED <<devices, readings, sim_sequence, history>>
          ELSE IF device_id \notin DOMAIN devices
          THEN /\ Respond("simulator_emit", "InternalError", device_id, input)
               /\ workers' = [workers EXCEPT ![t].pc = "sleeping",
                                             ![t].pending = {}]
               /\ UNCHANGED <<devices, readings, sim_sequence, history>>
          ELSE /\ Respond("simulator_emit",
                          create_reading_decision(loaded, Small, now, TRUE,
                                                  None),
                          device_id, input)
               /\ readings' = Append(readings,
                      new_reading(device_id, Small, Some(now), now, TRUE))
               /\ devices' = [devices EXCEPT ![device_id] =
                      flushed(@, loaded,
                              [loaded EXCEPT !.last_reading_at = Some(now)])]
               /\ sim_sequence' =
                      [d \in DOMAIN sim_sequence \cup {device_id} |->
                          IF d = device_id THEN sequence_of(device_id) + 1
                          ELSE sim_sequence[d]]
               /\ history' = [history EXCEPT !.rotated = @ \ {device_id}]
               /\ workers' = [workers EXCEPT ![t].pending = @ \ {device_id}]
    /\ UNCHANGED <<clock, next_uuid, next_device_id, secrets_issued,
                   device_tokens, reseedings>>
    /\ UNCHANGED <<users, refresh_tokens, refresh_issued>>

\* _tick returns; _run sleeps
SimTickEnd(t) ==
    /\ t \in DOMAIN workers
    /\ workers[t].pc = "running"
    /\ workers[t].pending = {}
    /\ workers' = [workers EXCEPT ![t].pc = "sleeping"]
    /\ Respond("simulator_tick", "Done", 0, NoInput)
    /\ UNCHANGED <<clock, next_uuid, sim_sequence>>
    /\ DevicesUnchanged
    /\ UNCHANGED <<users, refresh_tokens, refresh_issued, history>>

\* _run, line 49: the loop sees the stop event and the thread ends
SimLoopExit(t) ==
    /\ t \in DOMAIN workers
    /\ workers[t].pc = "sleeping"
    /\ workers[1].stop_event
    /\ workers' = [workers EXCEPT ![t].pc = "exited"]
    /\ Respond("simulator_run", "Exited", 0, NoInput)
    /\ UNCHANGED <<clock, next_uuid, sim_sequence>>
    /\ DevicesUnchanged
    /\ UNCHANGED <<users, refresh_tokens, refresh_issued, history>>

\* start(), lines 29-36: nothing is started while _thread is alive or when
\* the simulation is disabled; otherwise the stop event is cleared and a new
\* thread is started and kept in _thread
SimStart ==
    /\ workers[1].stop # "joining"
    /\ LET thread == workers[1].thread
       IN IF thread # 0 /\ workers[thread].pc # "exited"
          THEN /\ Respond("simulator_start", "Alive", 0, NoInput)
               /\ UNCHANGED workers
          ELSE IF ~workers[1].enabled
          THEN /\ Respond("simulator_start", "Disabled", 0, NoInput)
               /\ UNCHANGED workers
          ELSE /\ Len(workers) < MaxThreads
               /\ Respond("simulator_start", "Started", 0, NoInput)
               /\ workers' =
                     Append([workers EXCEPT ![1].stop_event = FALSE,
                                            ![1].stop = "none",
                                            ![1].thread = Len(workers) + 1],
                            Simulator("sleeping", 0, <<>>, {}, 0, FALSE,
                                      "none", 0))
    /\ UNCHANGED <<clock, next_uuid, sim_sequence>>
    /\ DevicesUnchanged
    /\ UNCHANGED <<users, refresh_tokens, refresh_issued, history>>

\* stop(), lines 39-42: without a thread the call returns at once; otherwise
\* the event is set and the join begins
SimStop ==
    /\ workers[1].stop # "joining"
    /\ IF workers[1].thread = 0
       THEN /\ Respond("simulator_stop", "NoThread", 0, NoInput)
            /\ UNCHANGED workers
       ELSE /\ workers' = [workers EXCEPT ![1].stop_event = TRUE,
                                          ![1].stop = "joining",
                                          ![1].stop_at = clock]
            /\ Respond("simulator_stop", "Joining", 0, NoInput)
    /\ UNCHANGED <<clock, next_uuid, sim_sequence>>
    /\ DevicesUnchanged
    /\ UNCHANGED <<users, refresh_tokens, refresh_issued, history>>

join_timeout_seconds == 5

\* stop(), lines 42-46: join(timeout=5) returns when the thread has ended or
\* the timeout has passed; _thread becomes None and the dictionaries are
\* cleared
SimStopReturn ==
    /\ workers[1].stop = "joining"
    /\ \/ workers[workers[1].thread].pc = "exited"
       \/ clock >= workers[1].stop_at + join_timeout_seconds * TicksPerSecond
    /\ workers' = [workers EXCEPT ![1].stop = "returned", ![1].thread = 0]
    /\ sim_sequence' = <<>>
    /\ Respond("simulator_stop", "Returned", 0, NoInput)
    /\ UNCHANGED <<clock, next_uuid>>
    /\ DevicesUnchanged
    /\ UNCHANGED <<users, refresh_tokens, refresh_issued, history>>

\* ------------------------------------------------------------------- clock
\* Time passes while a statement of a tick waits for the database: as long
\* as the join of stop() waits.  A thread that sleeps between two ticks
\* (_run, line 54, one second) meets the stop event before that time is over.
TickWait ==
    /\ clock < MaxWaits * join_timeout_seconds * TicksPerSecond
    /\ \E t \in DOMAIN workers : workers[t].pc = "running"
    /\ clock' = clock + join_timeout_seconds * TicksPerSecond
    /\ UNCHANGED <<devices, readings, next_uuid, next_device_id,
                   secrets_issued, device_tokens, reseedings, sim_sequence>>
    /\ NoResponse
    /\ AuthUnchanged

\* Time passes: past the lifetime of a device token
TickEpoch ==
    /\ clock < MaxEpochs * Minutes(device_token_exp_minutes)
    /\ clock' = clock + Minutes(device_token_exp_minutes) + TicksPerSecond
    /\ UNCHANGED <<devices, readings, next_uuid, next_device_id,
                   secrets_issued, device_tokens, reseedings, sim_sequence>>
    /\ NoResponse
    /\ AuthUnchanged

\* Time passes: one tick
TickSub ==
    /\ clock % Minutes(device_token_exp_minutes) < MaxSubTicks
    /\ clock' = clock + 1
    /\ UNCHANGED <<devices, readings, next_uuid, next_device_id,
                   secrets_issued, device_tokens, reseedings, sim_sequence>>
    /\ NoResponse
    /\ AuthUnchanged

\* ---------------------------------------------- device lifecycle and tokens
NextDevices ==
    \/ \E name \in Names, interval \in SeedIntervals("weather_station") :
          CreateDevice(2, name, "weather_station", interval)
    \/ \E device_id \in DeviceIds, requester \in DOMAIN users :
          \/ DeactivateDevice(device_id, requester)
          \/ DeleteDevice(device_id, requester)
          \/ RotateDeviceSecret(device_id, requester)
          \/ InvalidateDeviceTokens(device_id, requester)
          \/ \E name \in NewNames, category \in NewCategories,
                status \in NewStatuses :
                \E interval \in (IF category = None THEN {0}
                                  ELSE SeedIntervals(category[1])) :
                   UpdateDevice(device_id, requester, name, category, status,
                                interval)
    \/ \E device_id \in DeviceIds, device_secret \in SecretsTried :
          IssueDeviceToken(device_id, device_secret)
    \/ \E credentials \in Credentials :
          SubmitDeviceReading(credentials, Small, None)
    \/ TickEpoch

SpecDevices == InitDevices /\ [][NextDevices]_vars

\* ------------------------------------------------------------ ingestion gate
NextReadings ==
    \/ \E name \in Names, interval \in SeedIntervals("weather_station") :
          CreateDevice(2, name, "weather_station", interval)
    \/ \E device_id \in DeviceIds, device_secret \in secrets_issued :
          IssueDeviceToken(device_id, device_secret)
    \/ \E device_id \in DeviceIds : RotateDeviceSecret(device_id, 2)
    \/ \E credentials \in Credentials, payload \in Payloads :
          SubmitDeviceReading(credentials, payload, None)
    \/ \E device_id \in DeviceIds, payload \in Payloads :
          SimulatorEmit(device_id, payload)
    \/ TickSub

SpecReadings == InitDevices /\ [][NextReadings]_vars

\* ------------------------------------- readings with a device timestamp
NextTimestamps ==
    \/ \E name \in Names, interval \in SeedIntervals("weather_station") :
          CreateDevice(2, name, "weather_station", interval)
    \/ \E device_id \in DeviceIds, device_secret \in secrets_issued :
          IssueDeviceToken(device_id, device_secret)
    \/ \E credentials \in Credentials, payload \in {Small, Oversized},
          device_timestamp \in DeviceTimestamps :
          SubmitDeviceReading(credentials, payload, device_timestamp)
    \/ TickSub

SpecTimestamps == InitDevices /\ [][NextTimestamps]_vars

\* ---------------------------------------------- routes of app/api/routes/auth.py
AuthRejected(op, status, input) ==
    /\ Respond(op, status, 0, input)
    /\ UNCHANGED <<clock, users, refresh_tokens, refresh_issued, next_uuid,
                   workers>>
    /\ DevicesUnchanged

\* the first Refresh outcome of a token is kept, later ones are not
first_refresh_kept(refresh_token, status) ==
    IF refresh_token \in DOMAIN history.first_refresh
    THEN history
    ELSE [history EXCEPT !.first_refresh = @ @@ (refresh_token :> status)]

Register(email, password) ==
    /\ IF UsersByEmail(lower(email)) # {}
       THEN /\ Respond("register", "BadRequest", 0,
                                 [email |-> email, password |-> password])
            /\ UNCHANGED <<users, history>>
       ELSE /\ Cardinality(DOMAIN users) < MaxUsers
            /\ users' = users @@ (NextRowId(users) :>
                                     new_user(lower(email), password, "user"))
            /\ history' = [history EXCEPT !.credentials =
                              @ @@ (NextRowId(users) :> password)]
            /\ Respond("register", "Created", 0,
                                 [email |-> email, password |-> password])
    /\ UNCHANGED <<clock, refresh_tokens, refresh_issued, next_uuid, workers>>
    /\ DevicesUnchanged

Login(email, password) ==
    LET user == authenticate_user(email, password)
        input == [email |-> email, password |-> password, pair |-> None]
    IN /\ IF user = None
          THEN AuthRejected("login", "Unauthorized", input)
          ELSE LET pair == token_pair(user[1], clock, next_uuid)
               IN /\ Cardinality(refresh_issued) < MaxLogins
                  /\ refresh_tokens' = refresh_tokens @@
                        (NextRowId(refresh_tokens) :>
                            refresh_entry(user[1], pair.refresh_token, clock))
                  /\ refresh_issued' = refresh_issued \cup {pair.refresh_token}
                  /\ next_uuid' = next_uuid + 2
                  /\ Respond("login", "OK", 0,
                                       [email |-> email, password |-> password,
                                        pair |-> Some(pair)])
                  /\ UNCHANGED <<clock, users, workers>>
                  /\ DevicesUnchanged
       /\ UNCHANGED history

\* refresh as one step: a request that no other request overlaps
Refresh(refresh_token) ==
    LET looked == refresh_lookup(refresh_token, clock)
        failed(status, detail) ==
            /\ Respond("refresh", status, 0,
                                 [refresh_token |-> refresh_token,
                                  detail |-> detail, pair |-> None])
            /\ history' = first_refresh_kept(refresh_token, status)
            /\ UNCHANGED <<refresh_issued, next_uuid>>
    IN /\ IF looked.entry = None
          THEN /\ failed(looked.status, looked.detail)
               /\ UNCHANGED refresh_tokens
          ELSE
          LET entry == looked.entry[1]
              user_id == refresh_tokens[entry].user_id
              check == refresh_entry_check(refresh_token, refresh_tokens[entry],
                                           clock)
              pair == token_pair(user_id, clock, next_uuid)
          IN IF check # "ok"
             THEN /\ failed("Unauthorized", check)
                  /\ refresh_tokens' =
                        [refresh_tokens EXCEPT ![entry].revoked = TRUE]
             ELSE IF user_id \notin DOMAIN users
             THEN /\ failed("NotFound", "no user")
                  /\ refresh_tokens' =
                        [refresh_tokens EXCEPT ![entry].revoked = TRUE]
             ELSE /\ Cardinality(refresh_issued) < MaxRefreshTokens
                  /\ refresh_tokens' =
                        rotated(entry, user_id, pair.refresh_token, clock)
                  /\ refresh_issued' = refresh_issued \cup {pair.refresh_token}
                  /\ next_uuid' = next_uuid + 2
                  /\ history' = first_refresh_kept(refresh_token, "OK")
                  /\ Respond("refresh", "OK", 0,
                                       [refresh_token |-> refresh_token,
                                        detail |-> "ok", pair |-> Some(pair)])
       /\ UNCHANGED <<clock, users, workers>>
       /\ DevicesUnchanged

\* logout of the authenticated user user_id
Logout(refresh_token, user_id) ==
    LET looked == logout_lookup(refresh_token, user_id, clock)
        input == [refresh_token |-> refresh_token, user_id |-> user_id,
                  detail |-> looked.detail]
    IN IF looked.entry = None
       THEN AuthRejected("logout", looked.status, input) /\ UNCHANGED history
       ELSE /\ refresh_tokens' =
                  [refresh_tokens EXCEPT ![looked.entry[1]].revoked = TRUE]
            /\ history' = [history EXCEPT
                              !.logged_out = @ \cup {refresh_token}]
            /\ Respond("logout", "OK", 0, input)
            /\ UNCHANGED <<clock, users, refresh_issued, next_uuid, workers>>
            /\ DevicesUnchanged

\* --------------------------------------------- routes of app/api/routes/admin.py
\* DELETE /admin/users/{user_id}; the ORM cascades to the user's devices,
\* their readings and the user's refresh-token rows
DeleteUser(user_id, acting_admin) ==
    /\ users[acting_admin].role = "admin"
    /\ LET input == [user_id |-> user_id]
       IN IF user_id \notin DOMAIN users
          THEN AuthRejected("delete_user", "NotFound", input)
               /\ UNCHANGED history
          ELSE IF user_id = acting_admin
          THEN AuthRejected("delete_user", "BadRequest", input)
               /\ UNCHANGED history
          ELSE LET gone == {d \in DOMAIN devices : devices[d].owner_id = user_id}
               IN /\ users' = [u \in DOMAIN users \ {user_id} |-> users[u]]
                  /\ devices' = [d \in DOMAIN devices \ gone |-> devices[d]]
                  /\ readings' = SelectSeq(readings,
                                           LAMBDA r : r.device_id \notin gone)
                  /\ refresh_tokens' =
                        [id \in {i \in DOMAIN refresh_tokens :
                                    refresh_tokens[i].user_id # user_id}
                           |-> refresh_tokens[id]]
                  /\ history' = [history EXCEPT !.credentials =
                                    [u \in DOMAIN @ \ {user_id} |-> @[u]]]
                  /\ Respond("delete_user", "OK", 0, input)
                  /\ UNCHANGED <<clock, next_uuid, next_device_id,
                                 secrets_issued, device_tokens, refresh_issued,
                                 reseedings, sim_sequence, workers>>

\* PUT /admin/users/{user_id}: update_user
UpdateUser(user_id, acting_admin, email, password, role) ==
    /\ users[acting_admin].role = "admin"
    /\ LET input == [user_id |-> user_id, email |-> email, role |-> role]
       IN IF user_id \notin DOMAIN users
          THEN AuthRejected("update_user", "NotFound", input)
               /\ UNCHANGED history
          ELSE IF /\ email # None
                  /\ lower(email[1]) # users[user_id].email
                  /\ UsersByEmail(lower(email[1])) \ {user_id} # {}
          THEN AuthRejected("update_user", "BadRequest", input)
               /\ UNCHANGED history
          ELSE /\ users' = [users EXCEPT
                  ![user_id].email =
                      IF email # None THEN lower(email[1]) ELSE @,
                  ![user_id].password_hash =
                      IF password # None THEN hash_secret(password[1]) ELSE @,
                  ![user_id].role = IF role # None THEN role[1] ELSE @]
               /\ history' = IF password = None THEN history
                             ELSE [history EXCEPT
                                      !.credentials[user_id] = password[1]]
               /\ Respond("update_user", "OK", 0, input)
               /\ UNCHANGED <<clock, refresh_tokens, refresh_issued, next_uuid,
                              workers>>
               /\ DevicesUnchanged

\* Variant of ensure_admin_exists that looks for the bootstrap e-mail
\* instead of the role
ensure_admin_exists_by_email(table) ==
    IF \E u \in DOMAIN table : table[u].email = bootstrap_admin.email
    THEN table
    ELSE table @@ (NextRowId(table) :> bootstrap_admin)

\* ensure_admin_exists: the users after it.  The INSERT fails on the unique
\* e-mail when a user without the admin role holds admin@example.com; the
\* IntegrityError leaves the table as it was.
ensure_admin_exists(table) ==
    IF \E u \in DOMAIN table : table[u].role = "admin"
    THEN table
    ELSE IF \E u \in DOMAIN table : table[u].email = bootstrap_admin.email
    THEN table
    ELSE table @@ (NextRowId(table) :> bootstrap_admin)

\* main.py, lifespan: _bootstrap_admin at a start of the application
EnsureAdminExists ==
    /\ Cardinality(DOMAIN users) <= MaxUsers
    /\ users' = ensure_admin_exists(users)
    /\ history' = [history EXCEPT !.credentials =
                      [u \in DOMAIN users' |->
                          IF u \in DOMAIN users THEN @[u]
                          ELSE Password("Admin123!")]]
    /\ Respond("ensure_admin_exists",
               IF users' # users THEN "Created"
               ELSE IF \E u \in DOMAIN users : users[u].role = "admin"
               THEN "OK" ELSE "IntegrityError", 0, NoInput)
    /\ UNCHANGED <<clock, refresh_tokens, refresh_issued, next_uuid, workers>>
    /\ DevicesUnchanged

\* Time passes: the lifetime of a refresh token
TickRefreshEpoch ==
    /\ clock < MaxEpochs * Minutes(refresh_token_exp_minutes)
    /\ clock' = clock + Minutes(refresh_token_exp_minutes)
    /\ NoResponse
    /\ UNCHANGED next_uuid
    /\ DevicesUnchanged
    /\ AuthUnchanged

\* -------------------------------------------------- sessions and the ledger
NextAuth ==
    \/ \E email \in Emails : Register(email, Password("Passw0rd!"))
    \/ \E email \in LoginEmails, password \in Passwords : Login(email, password)
    \/ \E refresh_token \in refresh_issued : Refresh(refresh_token)
    \/ \E refresh_token \in refresh_issued, user_id \in DOMAIN users :
          Logout(refresh_token, user_id)
    \/ \E user_id \in 1..MaxUsers : DeleteUser(user_id, 1)
    \/ TickSub
    \/ TickRefreshEpoch

SpecAuth == Init /\ [][NextAuth]_vars

\* ------------------------------------- refresh requests that overlap in time
\* A request is one database session.  Its select reads the committed rows;
\* what it sets on the row it loaded is written at its commit.
Request(pc, refresh_token, entry, status) ==
    [pc |-> pc, refresh_token |-> refresh_token, entry |-> entry,
     status |-> status]

\* refresh, lines 111-138, in a new request
RefreshLookup(w, refresh_token) ==
    /\ w = Cardinality(DOMAIN workers) + 1
    /\ w <= MaxWorkers
    /\ LET looked == refresh_lookup(refresh_token, clock)
       IN IF looked.entry = None
          THEN /\ workers' = workers @@
                     (w :> Request("closed", refresh_token, None, looked.status))
               /\ history' = first_refresh_kept(refresh_token, looked.status)
               /\ Respond("refresh", looked.status, 0,
                                    [refresh_token |-> refresh_token,
                                     detail |-> looked.detail, pair |-> None])
          ELSE /\ workers' = workers @@
                     (w :> Request("looked_up", refresh_token, looked.entry,
                                   "pending"))
               /\ UNCHANGED <<history, result, security_events, events_writable>>
    /\ UNCHANGED <<clock, users, refresh_tokens, refresh_issued, next_uuid>>
    /\ DevicesUnchanged

\* refresh, lines 139-156: the checks on the loaded row, entry.revoked = True
\* in the session, the select of the user
RefreshRevoke(w) ==
    /\ w \in DOMAIN workers
    /\ workers[w].pc = "looked_up"
    /\ LET refresh_token == workers[w].refresh_token
           entry == workers[w].entry[1]
           check == refresh_entry_check(refresh_token, refresh_tokens[entry],
                                        clock)
           closed(status, detail) ==
               /\ workers' = [workers EXCEPT ![w].pc = "closed",
                                             ![w].status = status]
               /\ refresh_tokens' =
                     [refresh_tokens EXCEPT ![entry].revoked = TRUE]
               /\ history' = first_refresh_kept(refresh_token, status)
               /\ Respond("refresh", status, 0,
                                    [refresh_token |-> refresh_token,
                                     detail |-> detail, pair |-> None])
       IN IF check # "ok" THEN closed("Unauthorized", check)
          ELSE IF refresh_tokens[entry].user_id \notin DOMAIN users
          THEN closed("NotFound", "no user")
          ELSE /\ workers' = [workers EXCEPT ![w].pc = "revoked"]
               /\ UNCHANGED <<refresh_tokens, history, result, security_events,
                              events_writable>>
    /\ UNCHANGED <<clock, users, refresh_issued, next_uuid>>
    /\ DevicesUnchanged

\* refresh, line 157: create_token_pair and its commit, which writes the
\* revoked flag and the new row
RefreshCommit(w) ==
    /\ w \in DOMAIN workers
    /\ workers[w].pc = "revoked"
    /\ LET refresh_token == workers[w].refresh_token
           entry == workers[w].entry[1]
           user_id == refresh_tokens[entry].user_id
           pair == token_pair(user_id, clock, next_uuid)
       IN /\ refresh_tokens' =
                rotated(entry, user_id, pair.refresh_token, clock)
          /\ refresh_issued' = refresh_issued \cup {pair.refresh_token}
          /\ next_uuid' = next_uuid + 2
          /\ workers' = [workers EXCEPT ![w].pc = "closed", ![w].status = "OK"]
          /\ history' = first_refresh_kept(refresh_token, "OK")
          /\ Respond("refresh", "OK", 0,
                               [refresh_token |-> refresh_token,
                                detail |-> "ok", pair |-> Some(pair)])
    /\ UNCHANGED <<clock, users>>
    /\ DevicesUnchanged

NextRefreshRace ==
    \/ \E password \in Passwords : Login("admin@example.com", password)
    \/ \E w \in 1..MaxWorkers, refresh_token \in refresh_issued :
          RefreshLookup(w, refresh_token)
    \/ \E w \in 1..MaxWorkers : RefreshRevoke(w)
    \/ \E w \in 1..MaxWorkers : RefreshCommit(w)
    \/ TickSub

SpecRefreshRace == Init /\ [][NextRefreshRace]_vars

\* ------------------------------------------- the ledger written out of band
\* tests/test_auth_service_extras.py: a direct write to a ledger row, as the
\* tests of the expiry and hash checks make it
OtherToken == [kind |-> "text", text |-> "other-token"]

\* entry.token_hash = hash_secret("other-token")
TamperTokenHash(id) ==
    /\ id \in DOMAIN refresh_tokens
    /\ refresh_tokens[id].token_hash # hash_secret(OtherToken)
    /\ refresh_tokens' =
          [refresh_tokens EXCEPT ![id].token_hash = hash_secret(OtherToken)]
    /\ NoResponse
    /\ UNCHANGED <<clock, users, refresh_issued, next_uuid, workers, history>>
    /\ DevicesUnchanged

\* entry.expires_at = now - timedelta(minutes=1)
TamperExpiresAt(id) ==
    /\ id \in DOMAIN refresh_tokens
    /\ refresh_tokens[id].expires_at >= clock
    /\ refresh_tokens' =
          [refresh_tokens EXCEPT ![id].expires_at = clock - Minutes(1)]
    /\ NoResponse
    /\ UNCHANGED <<clock, users, refresh_issued, next_uuid, workers, history>>
    /\ DevicesUnchanged

NextLedger ==
    \/ \E password \in Passwords : Login("admin@example.com", password)
    \/ \E refresh_token \in refresh_issued : Refresh(refresh_token)
    \/ \E id \in 1..MaxRefreshTokens : TamperTokenHash(id)
    \/ \E id \in 1..MaxRefreshTokens : TamperExpiresAt(id)
    \/ TickSub
    \/ TickRefreshEpoch

SpecLedger == Init /\ [][NextLedger]_vars

\* ------------------------------------------------- accounts and credentials
NextCredentials ==
    \/ \E email \in Emails, password \in RegisterPasswords :
          Register(email, password)
    \/ \E email \in Emails, password \in LoginPasswords : Login(email, password)
    \/ \E user_id \in 1..MaxUsers : DeleteUser(user_id, 1)
    \/ \E user_id \in 1..MaxUsers, email \in NewEmails, role \in NewRoles :
          UpdateUser(user_id, 1, email, None, role)

SpecCredentials == Init /\ [][NextCredentials]_vars

\* ------------------------------------------- restarts of the application
NextBootstrap ==
    \/ \E email \in Emails : Register(email, Password("Passw0rd!"))
    \/ \E user_id \in 1..MaxUsers + 1, acting_admin \in DOMAIN users :
          DeleteUser(user_id, acting_admin)
    \/ \E user_id \in DOMAIN users, acting_admin \in DOMAIN users,
          email \in {None, Some("B@X.COM")},
          role \in {None, Some("user"), Some("admin")} :
          UpdateUser(user_id, acting_admin, email, None, role)
    \/ EnsureAdminExists

SpecBootstrap == Init /\ [][NextBootstrap]_vars

\* --------------------------- lifecycle requests that overlap in time
\* Each request has a session of its own (get_db).  get_device loads the row
\* into the session; the service method then computes on the loaded object
\* (device.token_version += 1) and its commit issues an UPDATE that sets the
\* attributes whose value changed to the values computed in the session.
DeviceRequest(pc, op, device_id, requester, device) ==
    [pc |-> pc, op |-> op, device_id |-> device_id, requester |-> requester,
     device |-> device]

VersionBumps == {"deactivate_device", "rotate_secret", "invalidate_tokens"}

\* get_device in a new request
LifecycleLoad(w, op, device_id, requester) ==
    /\ w = Cardinality(DOMAIN workers) + 1
    /\ w <= MaxWorkers
    /\ get_device(device_id, requester) = "OK"
    /\ devices[device_id].status # "deleted"
    /\ workers' = workers @@
          (w :> DeviceRequest("loaded", op, device_id, requester,
                              devices[device_id]))
    /\ UNCHANGED <<clock, users, refresh_tokens, refresh_issued, next_uuid,
                   history, result, security_events, events_writable>>
    /\ DevicesUnchanged

\* deactivate_device / rotate_secret / invalidate_tokens on the loaded row,
\* and the commit
LifecycleCommit(w) ==
    /\ w \in DOMAIN workers
    /\ workers[w].pc = "loaded"
    /\ LET op == workers[w].op
           device_id == workers[w].device_id
           loaded == workers[w].device
           secret == generate_device_secret(next_uuid)
           changed == CASE op = "deactivate_device" ->
                              deactivate_device(loaded, clock)
                        [] op = "rotate_secret" -> rotate_secret(loaded, secret)
                        [] op = "invalidate_tokens" -> invalidate_tokens(loaded)
       IN /\ loaded.token_version < MaxVersion
          /\ devices' = [devices EXCEPT
                            ![device_id] = flushed(@, loaded, changed)]
          /\ IF op = "rotate_secret"
             THEN /\ secrets_issued' = secrets_issued \cup {secret}
                  /\ next_uuid' = next_uuid + 1
                  /\ history' = [history EXCEPT
                                    !.rotated = @ \cup {device_id}]
                  /\ Respond(op, "OK", device_id, [secret |-> secret])
             ELSE /\ UNCHANGED <<secrets_issued, next_uuid, history>>
                  /\ Respond(op, "OK", device_id, NoInput)
          /\ workers' = [workers EXCEPT ![w].pc = "closed"]
    /\ UNCHANGED <<clock, users, refresh_tokens, refresh_issued, readings,
                   next_device_id, device_tokens, reseedings, sim_sequence>>

NextLifecycleRace ==
    \/ \E name \in Names, interval \in SeedIntervals("weather_station") :
          CreateDevice(2, name, "weather_station", interval)
    \/ \E w \in 1..MaxWorkers, op \in VersionBumps, device_id \in DeviceIds :
          LifecycleLoad(w, op, device_id, 2)
    \/ \E w \in 1..MaxWorkers : LifecycleCommit(w)
    \/ \E device_id \in DeviceIds, device_secret \in secrets_issued :
          IssueDeviceToken(device_id, device_secret)
    \/ \E credentials \in Credentials :
          SubmitDeviceReading(credentials, Small, None)

SpecLifecycleRace == InitDevices /\ [][NextLifecycleRace]_vars

\* ------------------------------- reading submissions that overlap in time
\* get_device_from_token loads the device into the session of the request
SubmitLoad(w, credentials) ==
    /\ w = Cardinality(DOMAIN workers) + 1
    /\ w <= MaxWorkers
    /\ get_device_from_token(credentials, clock) = "OK"
    /\ workers' = workers @@
          (w :> DeviceRequest("loaded", "submit_reading", credentials[1].sub,
                              credentials, devices[credentials[1].sub]))
    /\ UNCHANGED <<clock, users, refresh_tokens, refresh_issued, next_uuid,
                   history, result, security_events, events_writable>>
    /\ DevicesUnchanged

\* create_reading on the loaded device: the rate test reads
\* device.last_reading_at of the session, the last-reading query reads the
\* committed rows; then the insert and the commit
SubmitCommit(w, payload) ==
    /\ w \in DOMAIN workers
    /\ workers[w].pc = "loaded"
    /\ workers[w].op = "submit_reading"
    /\ workers[w].device_id \in DOMAIN devices
    /\ LET device_id == workers[w].device_id
           loaded == workers[w].device
       IN \E last_reading \in LastReadingChoices(device_id) :
          LET outcome == create_reading_decision(loaded, payload, clock, FALSE,
                                                 last_reading)
          IN /\ Respond("submit_reading", outcome, device_id,
                        [credentials |-> workers[w].requester,
                         payload |-> payload, force |-> FALSE])
             /\ IF outcome = "Created"
                THEN /\ readings' = Append(readings,
                            new_reading(device_id, payload, None, clock, FALSE))
                     /\ devices' = [devices EXCEPT ![device_id] =
                           flushed(@, loaded,
                                   [loaded EXCEPT
                                       !.last_reading_at = Some(clock)])]
                     /\ history' = [history EXCEPT
                                       !.rotated = @ \ {device_id}]
                ELSE UNCHANGED <<devices, readings, history>>
    /\ workers' = [workers EXCEPT ![w].pc = "closed"]
    /\ UNCHANGED <<clock, users, refresh_tokens, refresh_issued, next_uuid,
                   next_device_id, secrets_issued, device_tokens, reseedings,
                   sim_sequence>>

NextReadingRace ==
    \/ \E name \in Names, interval \in SeedIntervals("weather_station") :
          CreateDevice(2, name, "weather_station", interval)
    \/ \E device_id \in DeviceIds, device_secret \in secrets_issued :
          IssueDeviceToken(device_id, device_secret)
    \/ \E credentials \in Credentials :
          SubmitDeviceReading(credentials, Small, None)
    \/ \E w \in 1..MaxWorkers, credentials \in Credentials :
          SubmitLoad(w, credentials)
    \/ \E w \in 1..MaxWorkers, payload \in {Small, Oversized} :
          SubmitCommit(w, payload)
    \/ TickSub

SpecReadingRace == InitDevices /\ [][NextReadingRace]_vars

\* -------------------------------------------------------- gui/api_client.py
\* The client's view of the server: a response with a status code and, for
\* /auth/login and /auth/refresh answered 200, a token pair; or a
\* RequestException instead of a response.
Response(status_code, data) ==
    [raised |-> FALSE, status_code |-> status_code, data |-> data]

RequestException == [raised |-> TRUE, status_code |-> 0, data |-> None]

UserSession(email, role) == [email |-> email, role |-> role]

ApiClient(access_token, refresh_token, user_session) ==
    [access_token |-> access_token, refresh_token |-> refresh_token,
     user_session |-> user_session]

\* Variant of clear_session that keeps the refresh token
clear_session_keeps_refresh_token(client) ==
    ApiClient(None, client.refresh_token, None)

clear_session(client) == ApiClient(None, None, None)

\* _decode_token_payload(...).get("role"), as _store_tokens and login read it
role_of(access_token) == IF access_token.role = "admin" THEN "admin" ELSE "user"

store_tokens(client, tokens) ==
    ApiClient(Some(tokens.access_token), Some(tokens.refresh_token),
              IF client.user_session = None THEN None
              ELSE Some(UserSession(client.user_session[1].email,
                                    role_of(tokens.access_token))))

\* _refresh_tokens with the answer of POST /auth/refresh: the client after
\* it, the returned flag, the number of posts
client_refresh_tokens(client, response) ==
    IF client.refresh_token = None
    THEN [client |-> client, ok |-> FALSE, posted |-> 0]
    ELSE IF response.raised \/ response.status_code # 200
    THEN [client |-> clear_session(client), ok |-> FALSE, posted |-> 1]
    ELSE [client |-> store_tokens(client, response.data[1]), ok |-> TRUE,
          posted |-> 1]

\* what _request gives back: the client after it, the Authorization header
\* of each send, the posts to /auth/refresh and the flag _refresh_tokens
\* returned, the status code of ApiError (none when it returns) and the data
Exchange(client, sent, refreshed, refresh_ok, error, data) ==
    [client |-> client, sent |-> sent, refreshed |-> refreshed,
     refresh_ok |-> refresh_ok, error |-> error, data |-> data]

\* _handle_response
handle_response(response) ==
    IF response.status_code >= 400 THEN Some(response.status_code) ELSE None

\* Variant of client_request that refreshes and resends once more when the
\* resent request is answered 401
client_request_retrying_again(client, auth, first, refresh, second) ==
    IF auth /\ client.access_token = None
    THEN Exchange(client, <<>>, 0, FALSE, Some(401), None)
    ELSE IF first.raised
    THEN Exchange(client, <<client.access_token>>, 0, FALSE, Some(0), None)
    ELSE IF first.status_code = 401 /\ auth
    THEN LET refreshed == client_refresh_tokens(client, refresh)
             again == client_refresh_tokens(refreshed.client, refresh)
         IN IF ~refreshed.ok
            THEN Exchange(refreshed.client, <<client.access_token>>,
                          refreshed.posted, FALSE, handle_response(first), None)
            ELSE IF second.raised
            THEN Exchange(refreshed.client,
                          <<client.access_token, refreshed.client.access_token>>,
                          1, TRUE, Some(0), None)
            ELSE IF second.status_code = 401 /\ again.ok
            THEN Exchange(again.client,
                          <<client.access_token, refreshed.client.access_token,
                            again.client.access_token>>,
                          2, TRUE, handle_response(second), second.data)
            ELSE Exchange(refreshed.client,
                          <<client.access_token, refreshed.client.access_token>>,
                          1, TRUE, handle_response(second), second.data)
    ELSE Exchange(client, <<IF auth THEN client.access_token ELSE None>>, 0,
                  FALSE, handle_response(first), first.data)

\* _request: first is the answer to the request, refresh the answer to the
\* post of _refresh_tokens, second the answer to the resent request
client_request(client, auth, first, refresh, second) ==
    IF auth /\ client.access_token = None
    THEN Exchange(client, <<>>, 0, FALSE, Some(401), None)
    ELSE IF first.raised
    THEN Exchange(client, <<IF auth THEN client.access_token ELSE None>>, 0,
                  FALSE, Some(0), None)
    ELSE IF first.status_code = 401 /\ auth
    THEN LET refreshed == client_refresh_tokens(client, refresh)
         IN IF ~refreshed.ok
            THEN Exchange(refreshed.client, <<client.access_token>>,
                          refreshed.posted, FALSE, handle_response(first), None)
            ELSE IF second.raised
            THEN Exchange(refreshed.client,
                          <<client.access_token, refreshed.client.access_token>>,
                          1, TRUE, Some(0), None)
            ELSE Exchange(refreshed.client,
                          <<client.access_token, refreshed.client.access_token>>,
                          1, TRUE, handle_response(second), second.data)
    ELSE Exchange(client, <<IF auth THEN client.access_token ELSE None>>, 0,
                  FALSE, handle_response(first), first.data)

\* The answer of a client call, with the responses it met
ClientAnswer(op, exchange, first, refresh, second) ==
    /\ Respond(op, IF exchange.error = None THEN "OK" ELSE "ApiError", 0,
               [sent |-> exchange.sent, refreshed |-> exchange.refreshed,
                refresh_ok |-> exchange.refresh_ok, error |-> exchange.error,
                first |-> first, refresh |-> refresh, second |-> second])
    /\ UNCHANGED <<clock, users, refresh_tokens, refresh_issued, next_uuid,
                   history>>
    /\ DevicesUnchanged

\* login
ClientLogin(email, response) ==
    LET exchange == client_request(workers[1], FALSE, response, response,
                                   response)
        stored == store_tokens(workers[1], exchange.data[1])
    IN /\ workers' =
             [workers EXCEPT ![1] =
                 IF exchange.error # None THEN exchange.client
                 ELSE ApiClient(stored.access_token, stored.refresh_token,
                         Some(UserSession(email,
                                          role_of(stored.access_token[1]))))]
       /\ ClientAnswer("client_login", exchange, response, response, response)

\* any of the calls made with the access token (get_devices, ...)
ClientCall(first, refresh, second) ==
    LET exchange == client_request(workers[1], TRUE, first, refresh, second)
    IN /\ workers' = [workers EXCEPT ![1] = exchange.client]
       /\ ClientAnswer("client_call", exchange, first, refresh, second)

\* logout
ClientLogout(first, refresh, second) ==
    IF workers[1].refresh_token = None
    THEN /\ workers' = [workers EXCEPT ![1] = clear_session(@)]
         /\ ClientAnswer("client_logout",
                         Exchange(workers[1], <<>>, 0, FALSE, None, None),
                         first, refresh, second)
    ELSE LET exchange == client_request(workers[1], TRUE, first, refresh,
                                        second)
         IN /\ workers' = [workers EXCEPT ![1] = clear_session(exchange.client)]
            /\ ClientAnswer("client_logout", exchange, first, refresh, second)

\* The tokens a server hands out, as the client sees them
ClientTokens ==
    {[access_token |-> [n |-> n, role |-> role], refresh_token |-> [n |-> n]] :
        n \in 1..MaxClientTokens, role \in {"user", "admin"}}

\* answers to /auth/login and /auth/refresh
TokenResponses ==
    {Response(200, Some(tokens)) : tokens \in ClientTokens}
       \cup {Response(401, None), Response(500, None), RequestException}

\* answers to the other requests
Responses ==
    {Response(200, None), Response(204, None), Response(401, None),
     Response(500, None), RequestException}

\* A client that has not logged in
InitClient ==
    /\ clock = 0
    /\ users = (1 :> bootstrap_admin)
    /\ refresh_tokens = <<>>
    /\ devices = <<>>
    /\ readings = <<>>
    /\ next_uuid = 1
    /\ next_device_id = 1
    /\ secrets_issued = {}
    /\ device_tokens = {}
    /\ refresh_issued = {}
    /\ reseedings = 0
    /\ sim_sequence = <<>>
    /\ workers = <<ApiClient(None, None, None)>>
    /\ history = NoHistory
    /\ result = NoResult
    /\ security_events = <<>>
    /\ events_writable = TRUE

NextClient ==
    \/ \E response \in TokenResponses : ClientLogin("a@x.com", response)
    \/ \E first \in Responses, refresh \in TokenResponses, second \in Responses :
          ClientCall(first, refresh, second)
    \/ \E first \in Responses, refresh \in TokenResponses, second \in Responses :
          ClientLogout(first, refresh, second)

SpecClient == InitClient /\ [][NextClient]_vars

\* ------------------------------- a login that overlaps the user's deletion
\* login, line 106: authenticate_user loads the user into the session of the
\* request
LoginAuthenticate(w, email, password) ==
    /\ w = Cardinality(DOMAIN workers) + 1
    /\ w <= MaxWorkers
    /\ LET user == authenticate_user(email, password)
           input == [email |-> email, password |-> password, pair |-> None]
       IN IF user = None
          THEN /\ workers' = workers @@
                     (w :> [pc |-> "closed", op |-> "login", user |-> None,
                            role |-> None])
               /\ Respond("login", "Unauthorized", 0, input)
          ELSE /\ workers' = workers @@
                     (w :> [pc |-> "authenticated", op |-> "login",
                            user |-> user, role |-> Some(users[user[1]].role)])
               /\ UNCHANGED <<result, security_events, events_writable>>
    /\ UNCHANGED <<clock, users, refresh_tokens, refresh_issued, next_uuid,
                   history>>
    /\ DevicesUnchanged

\* login, line 107: create_token_pair for the loaded user; the INSERT names
\* user.id of the loaded object, and the database has no foreign-key
\* enforcement (no PRAGMA foreign_keys)
LoginCommit(w, email, password) ==
    /\ w \in DOMAIN workers
    /\ workers[w].pc = "authenticated"
    /\ Cardinality(refresh_issued) < MaxLogins
    /\ LET user == workers[w].user[1]
           pair ==
               [access_token |->
                   create_user_access_token(user, workers[w].role[1], clock,
                                            next_uuid),
                refresh_token |->
                   create_user_refresh_token(user, clock, next_uuid + 1)]
       IN /\ refresh_tokens' = refresh_tokens @@
                (NextRowId(refresh_tokens) :>
                    refresh_entry(user, pair.refresh_token, clock))
          /\ refresh_issued' = refresh_issued \cup {pair.refresh_token}
          /\ next_uuid' = next_uuid + 2
          /\ workers' = [workers EXCEPT ![w].pc = "closed"]
          /\ Respond("login", "OK", 0,
                     [email |-> email, password |-> password,
                      pair |-> Some(pair)])
    /\ UNCHANGED <<clock, users, history>>
    /\ DevicesUnchanged

NextDeletionRace ==
    \/ \E name \in Names, interval \in SeedIntervals("weather_station") :
          CreateDevice(2, name, "weather_station", interval)
    \/ \E device_id \in DeviceIds, device_secret \in secrets_issued :
          IssueDeviceToken(device_id, device_secret)
    \/ \E credentials \in Credentials :
          SubmitDeviceReading(credentials, Small, None)
    \/ Register("a@x.com", Password("Passw0rd!"))
    \/ Login("a@x.com", Password("Passw0rd!"))
    \/ \E w \in 1..MaxWorkers :
          LoginAuthenticate(w, "a@x.com", Password("Passw0rd!"))
    \/ \E w \in 1..MaxWorkers : LoginCommit(w, "a@x.com", Password("Passw0rd!"))
    \/ \E refresh_token \in refresh_issued : Refresh(refresh_token)
    \/ \E user_id \in {2, 3} : DeleteUser(user_id, 1)

SpecDeletionRace == InitDevices /\ [][NextDeletionRace]_vars

\* ------------------------------------------------ app/api/dependencies.py
\* get_current_user: the token is decoded as a user access token and the
\* user row with the id of its sub claim is loaded
get_current_user(token, now) ==
    LET decoded == decode_token(token, "user_access", now)
    IN IF ~decoded.ok
       THEN [status |-> "Unauthorized", user |-> None]
       ELSE IF decoded.payload.sub \notin DOMAIN users
       THEN [status |-> "Unauthorized", user |-> None]
       ELSE [status |-> "OK", user |-> Some(decoded.payload.sub)]

\* require_admin: the role of the loaded user row decides
require_admin(token, now) ==
    LET current == get_current_user(token, now)
    IN IF current.status # "OK" THEN current
       ELSE IF users[current.user[1]].role # "admin"
       THEN [status |-> "Forbidden", user |-> current.user]
       ELSE current

\* POST /auth/login by a client that keeps the token pair of the answer
\* (gui/api_client.py, login and _store_tokens); the client is a record of
\* workers
SignIn(email, password) ==
    LET user == authenticate_user(email, password)
        pair == token_pair(user[1], clock, next_uuid)
    IN /\ user # None
       /\ Len(workers) < MaxSessions
       /\ refresh_tokens' = refresh_tokens @@
             (NextRowId(refresh_tokens) :>
                 refresh_entry(user[1], pair.refresh_token, clock))
       /\ refresh_issued' = refresh_issued \cup {pair.refresh_token}
       /\ next_uuid' = next_uuid + 2
       /\ workers' = Append(workers,
             store_tokens(ApiClient(None, None,
                                    Some(UserSession(lower(email), "user"))),
                          pair))
       /\ Respond("login", "OK", 0,
                  [email |-> email, password |-> password, pair |-> Some(pair)])
       /\ UNCHANGED <<clock, users, history>>
       /\ DevicesUnchanged

\* GET /admin/security-events with the access token a client holds
\* (routes/admin.py, lines 50-56: Depends(require_admin))
ListSecurityEvents(w) ==
    /\ w \in DOMAIN workers
    /\ LET token == workers[w].access_token[1]
           admin == require_admin(token, clock)
       IN Respond("list_security_events", admin.status, 0,
                  [token |-> token, user |-> admin.user, session |-> w])
    /\ UNCHANGED <<clock, users, refresh_tokens, refresh_issued, next_uuid,
                   workers, history>>
    /\ DevicesUnchanged

NextAdmin ==
    \/ \E email \in {"a@x.com", "b@x.com"} :
          Register(email, Password("Passw0rd!"))
    \/ \E email \in {"a@x.com", "b@x.com"} :
          SignIn(email, Password("Passw0rd!"))
    \/ SignIn("admin@example.com", Password("Admin123!"))
    \/ \E user_id \in DOMAIN users, acting_admin \in DOMAIN users,
          role \in {"user", "admin"} :
          UpdateUser(user_id, acting_admin, None, None, Some(role))
    \/ \E user_id \in 1..MaxUsers : DeleteUser(user_id, 1)
    \/ \E w \in 1..MaxSessions : ListSecurityEvents(w)

SpecAdmin == Init /\ [][NextAdmin]_vars

\* ------------------------------------------------- the telemetry simulator
NextSimulator ==
    \/ SimTickStart(1)
    \/ \E device_id \in {1, 2} : SimTickEmit(1, device_id)
    \/ SimTickEnd(1)
    \/ SimLoopExit(1)
    \/ SimStop
    \/ SimStopReturn
    \/ \E device_id \in {1, 2} : DeactivateDevice(device_id, 2)
    \/ \E device_id \in {1, 2} : DeleteDevice(device_id, 2)
    \/ TickWait

SpecSimulator == InitFleet /\ [][NextSimulator]_vars

\* --------------------------------------- start() and stop() of the simulator
\* The store of InitFleet after the start() of the application's start-up
\* (main.py, lines 29-30), with the simulation enabled or disabled
InitRestart ==
    /\ clock = 0
    /\ users = (1 :> bootstrap_admin)
                 @@ (2 :> new_user("a@x.com", Password("Passw0rd!"), "user"))
                 @@ (3 :> new_user("b@x.com", Password("Passw0rd?"), "user"))
    /\ refresh_tokens = <<>>
    /\ devices =
          [id \in {1, 2} |->
              [new_device(2, "Sensor", "weather_station",
                          generate_device_secret(id))
                  EXCEPT !.last_reading_at =
                            Some(seed_last_received(
                                    0, DEVICE_CATEGORIES.weather_station[1]))]]
    /\ readings =
          seed_rows(1, 0, DEVICE_CATEGORIES.weather_station[1])
             \o seed_rows(2, 0, DEVICE_CATEGORIES.weather_station[1])
    /\ next_uuid = 3
    /\ next_device_id = 3
    /\ secrets_issued = {generate_device_secret(1), generate_device_secret(2)}
    /\ device_tokens = {}
    /\ refresh_issued = {}
    /\ reseedings = 0
    /\ sim_sequence = <<>>
    /\ \E enabled \in BOOLEAN :
          workers =
             <<[Simulator(IF enabled THEN "sleeping" ELSE "unstarted", 0,
                          <<>>, {}, 0, FALSE, "none", 0)
                   EXCEPT !.thread = IF enabled THEN 1 ELSE 0,
                          !.enabled = enabled]>>
    /\ history = [NoHistory EXCEPT !.credentials =
                        @ @@ (2 :> Password("Passw0rd!"))
                          @@ (3 :> Password("Passw0rd?"))]
    /\ result = NoResult
    /\ security_events = <<>>
    /\ events_writable = TRUE

NextRestart ==
    \/ SimStart
    \/ SimStop
    \/ SimStopReturn
    \/ \E t \in 1..MaxThreads : SimTickStart(t)
    \/ \E t \in 1..MaxThreads : \E device_id \in {1, 2} :
          SimTickEmit(t, device_id)
    \/ \E t \in 1..MaxThreads : SimTickEnd(t)
    \/ \E t \in 1..MaxThreads : SimLoopExit(t)
    \/ TickWait

SpecRestart == InitRestart /\ [][NextRestart]_vars

\* ---------------------------------------------------- owner-or-admin access
Limits == {1, max_readings_page_size}

NextAccess ==
    \/ \E name \in Names, interval \in SeedIntervals("weather_station") :
          CreateDevice(2, name, "weather_station", interval)
    \/ \E device_id \in DeviceIds, requester \in DOMAIN users :
          \/ GetDevice(device_id, requester)
          \/ DeactivateDevice(device_id, requester)
          \/ DeleteDevice(device_id, requester)
          \/ RotateDeviceSecret(device_id, requester)
          \/ InvalidateDeviceTokens(device_id, requester)
          \/ \E name \in NewNames, status \in NewStatuses :
                UpdateDevice(device_id, requester, name, None, status, 0)
          \/ \E limit \in Limits, include_simulated \in BOOLEAN :
                ListDeviceReadings(device_id, requester, limit,
                                   include_simulated)
          \/ \E include_simulated \in BOOLEAN :
                DeviceReadingsMeta(device_id, requester, include_simulated)
    \/ \E device_id \in DeviceIds, device_secret \in secrets_issued :
          IssueDeviceToken(device_id, device_secret)
    \/ \E credentials \in Credentials :
          SubmitDeviceReading(credentials, Small, None)

SpecAccess == InitDevices /\ [][NextAccess]_vars

\* ------------------------------- pages of readings next to simulated rows
NextListing ==
    \/ \E name \in Names, interval \in SeedIntervals("weather_station") :
          CreateDevice(2, name, "weather_station", interval)
    \/ \E device_id \in DeviceIds, device_secret \in secrets_issued :
          IssueDeviceToken(device_id, device_secret)
    \/ \E credentials \in Credentials :
          SubmitDeviceReading(credentials, Small, None)
    \/ \E device_id \in DeviceIds : SimulatorEmit(device_id, Small)
    \/ \E device_id \in DeviceIds, limit \in Limits,
          include_simulated \in BOOLEAN :
          ListDeviceReadings(device_id, 2, limit, include_simulated)
    \/ TickSub

SpecListing == InitDevices /\ [][NextListing]_vars

\* --------------------------- readings whose payload names __simulated__
\* ReadingCreateRequest.payload is any JSON object
Marked == Payload(9, "true")

\* the rows that came in through POST /device/readings
SubmittedRows == {i \in DOMAIN readings : readings[i].payload \in {Small, Marked}}

NextMarkedPayload ==
    \/ \E name \in Names, interval \in SeedIntervals("weather_station") :
          CreateDevice(2, name, "weather_station", interval)
    \/ \E device_id \in DeviceIds, device_secret \in secrets_issued :
          IssueDeviceToken(device_id, device_secret)
    \/ /\ Cardinality(SubmittedRows) < MaxRealReadings
       /\ \E credentials \in Credentials, payload \in {Small, Marked} :
             SubmitDeviceReading(credentials, payload, None)
    \/ TickSub

SpecMarkedPayload == InitDevices /\ [][NextMarkedPayload]_vars

\* ------------------------------------------------------------- token codec
\* A token of one class, minted at issued_at under the settings, is handed
\* to decode_token with the expected class of some route
DecodeToken(settings, token_type, expected_type, issued_at) ==
    LET token == create_token_in(settings, token_type, 1, issued_at, None)
        decoded == decode_token_in(settings, token, expected_type, clock)
    IN /\ Respond("decode_token",
                  IF decoded.ok THEN "OK" ELSE decoded.error, 0,
                  [settings |-> settings, token |-> token,
                   expected_type |-> expected_type])
       /\ UNCHANGED <<clock, next_uuid>>
       /\ DevicesUnchanged
       /\ AuthUnchanged

NextTokens ==
    \/ \E settings \in KeySettings, token_type \in TokenTypes,
          expected_type \in TokenTypes, issued_at \in {0, clock} :
          DecodeToken(settings, token_type, expected_type, issued_at)
    \/ TickSub
    \/ TickEpoch

SpecTokens == Init /\ [][NextTokens]_vars

\* ------------------------------------------------------ security event log
\* The store of security_events stops or starts accepting writes (a locked
\* or full database): what the except clause of SecurityLogger.log is for
LogStorageFault ==
    /\ events_writable' = ~events_writable
    /\ result' = NoResult
    /\ security_events' = <<>>
    /\ UNCHANGED <<clock, next_uuid>>
    /\ DevicesUnchanged
    /\ AuthUnchanged

NextLogging ==
    \/ \E password \in Passwords : Login("a@x.com", password)
    \/ \E refresh_token \in refresh_issued : Refresh(refresh_token)
    \/ \E refresh_token \in refresh_issued : Logout(refresh_token, 2)
    \/ \E name \in Names, interval \in SeedIntervals("weather_station") :
          CreateDevice(2, name, "weather_station", interval)
    \/ \E device_id \in DeviceIds, device_secret \in SecretsTried :
          IssueDeviceToken(device_id, device_secret)
    \/ \E credentials \in Credentials, payload \in {Small, Oversized} :
          SubmitDeviceReading(credentials, payload, None)
    \/ TickRefreshEpoch
    \/ LogStorageFault

SpecLogging == InitDevices /\ [][NextLogging]_vars

\* ------------------------------------------------------------------ claims
\* The token a submit_reading result was obtained with, and its device
Presented == result.input.credentials[1]
StaleTokenPresented ==
    /\ result.op = "submit_reading"
    /\ result.input.credentials # None
    /\ Presented.sub \in DOMAIN devices
    /\ devices[Presented.sub].token_version > Presented.token_version[1]
Unexpired(token) == token.exp >= WholeSecond(clock)

\* C3 as stated: a device token minted at token_version N is rejected with
\* Unauthorized once the device's token_version has been raised past N.
C3_StaleTokenUnauthorized ==
    StaleTokenPresented => result.status = "Unauthorized"

\* C3 amended: a device token minted at token_version N is rejected once the
\* device's token_version has been raised past N, with Forbidden while the
\* device is blocked and the token has not expired, with Unauthorized
\* otherwise (in particular whenever the device is active).
C3_StaleTokenRejected ==
    StaleTokenPresented =>
        result.status =
            IF devices[Presented.sub].status # "active" /\ Unexpired(Presented)
            THEN "Forbidden" ELSE "Unauthorized"

\* C3 witness: an unexpired token of the previous generation was refused with
\* Unauthorized on an active device whose secret is the one it was created with
C3_Witness ==
    /\ StaleTokenPresented
    /\ result.status = "Unauthorized"
    /\ Unexpired(Presented)
    /\ devices[Presented.sub].status = "active"
    /\ devices[Presented.sub].token_version = Presented.token_version[1] + 1
    /\ Cardinality(secrets_issued) = 1
    /\ \E s \in secrets_issued :
          verify_secret(s, devices[Presented.sub].secret_hash)

\* C4 as stated: every step that changes a device's status (block or unblock)
\* increments its token_version.
C4_StatusChangeBumpsVersion ==
    [][\A d \in DOMAIN devices \cap DOMAIN devices' :
          devices'[d].status # devices[d].status
             => devices'[d].token_version = devices[d].token_version + 1]_vars

\* C5: a submit_reading request passes device-token authorization only if
\* the token's device exists, is active and has the token's token_version;
\* in every other case it fails with Unauthorized or Forbidden and the
\* readings store is left as it was.
C5_AuthorizedOnlyIfCurrent ==
    [][result'.op = "submit_reading" =>
          LET credentials == result'.input.credentials
              current ==
                  /\ credentials # None
                  /\ credentials[1].sub \in DOMAIN devices
                  /\ devices[credentials[1].sub].status = "active"
                  /\ devices[credentials[1].sub].token_version
                        = credentials[1].token_version[1]
          IN /\ result'.status \in {"Created", "RateLimited", "PayloadTooLarge"}
                   => current
             /\ ~current => /\ result'.status \in {"Unauthorized", "Forbidden"}
                            /\ readings' = readings]_vars

\* C5 witness: a reading was accepted with a current token, and then one was
\* refused
C5_Witness ==
    /\ result.op = "submit_reading"
    /\ result.status = "Forbidden"
    /\ RealReadings # {}
    /\ devices[Presented.sub].token_version = Presented.token_version[1]

\* C6: token_version is 1 at creation, never decreases, and each successful
\* deactivate_device, rotate_secret and invalidate_tokens adds exactly 1.
C6_TokenVersionMonotonic ==
    [][\A d \in DOMAIN devices' :
          IF d \notin DOMAIN devices
          THEN devices'[d].token_version = 1
          ELSE /\ devices'[d].token_version >= devices[d].token_version
               /\ (/\ result'.op \in {"deactivate_device", "rotate_secret",
                                      "invalidate_tokens"}
                   /\ result'.status = "OK"
                   /\ result'.device_id = d)
                     => devices'[d].token_version
                            = devices[d].token_version + 1]_vars

\* C6 witness: a device deactivated after its token_version had already been
\* raised
C6_Witness ==
    /\ result.op = "deactivate_device"
    /\ result.status = "OK"
    /\ devices[result.device_id].token_version = 3

\* C7 as stated: issue_device_token answers Unauthorized for an unknown
\* device or a wrong secret whatever the status, Forbidden for the right
\* secret on a device that is not active, and otherwise succeeds.
C7_IssueOutcome ==
    result.op = "issue_device_token" =>
        result.status =
            IF \/ result.device_id \notin DOMAIN devices
               \/ ~verify_secret(result.input.device_secret,
                                 devices[result.device_id].secret_hash)
            THEN "Unauthorized"
            ELSE IF devices[result.device_id].status # "active"
            THEN "Forbidden"
            ELSE "OK"

\* C8: rotate_secret raises token_version by one, leaves the device active
\* with no deactivation time, refuses the previous secret with Unauthorized
\* and accepts the returned one.
C8_RotateSecret ==
    [][(result'.op = "rotate_secret" /\ result'.status = "OK") =>
          \A d \in DOMAIN devices : d = result'.device_id =>
             /\ devices'[d].token_version = devices[d].token_version + 1
             /\ devices'[d].status = "active"
             /\ devices'[d].deactivated_at = None
             /\ \A s \in secrets_issued :
                   verify_secret(s, devices[d].secret_hash)
                      => issue_device_token(d, s)' = "Unauthorized"
             /\ \A s \in secrets_issued' :
                   s = result'.input.secret
                      => issue_device_token(d, s)' = "OK"]_vars

\* C8 witness: a device whose token_version another operation had raised
\* got its second secret
C8_Witness ==
    /\ result.op = "rotate_secret"
    /\ result.status = "OK"
    /\ devices[result.device_id].token_version = 3
    /\ Cardinality(secrets_issued) = 2

\* C9: invalidate_tokens changes token_version and nothing else of the
\* device or the store, and an active device then gets a token that passes
\* authorization with the secret it already had.
C9_InvalidateTokensFrame ==
    [][(result'.op = "invalidate_tokens" /\ result'.status = "OK") =>
          \A d \in DOMAIN devices : d = result'.device_id =>
             /\ devices' = [devices EXCEPT ![d].token_version = @ + 1]
             /\ readings' = readings
             /\ devices[d].status = "active" =>
                  \A s \in secrets_issued :
                     verify_secret(s, devices[d].secret_hash) =>
                        /\ issue_device_token(d, s)' = "OK"
                        /\ get_device_from_token(
                              Some(create_device_access_token(
                                      d, devices[d].token_version, clock, None)),
                              clock)' = "OK"]_vars

\* C9 witness: the tokens of an active device that has a last-reading time
\* were invalidated
C9_Witness ==
    /\ result.op = "invalidate_tokens"
    /\ result.status = "OK"
    /\ devices[result.device_id].status = "active"
    /\ devices[result.device_id].last_reading_at # None
    /\ RealReadings # {}

\* C10: create_reading answers PayloadTooLarge for every payload over
\* data_payload_limit_bytes, forced or not, inside the rate-limit window or
\* not, and stores nothing.
C10_SizeCheckedFirst ==
    [][(/\ result'.op \in {"submit_reading", "simulator_emit"}
        /\ result'.status \notin {"Unauthorized", "Forbidden"}
        /\ payload_size(result'.input.payload) > data_payload_limit_bytes)
          => /\ result'.status = "PayloadTooLarge"
             /\ readings' = readings
             /\ devices' = devices]_vars

\* C10 witness: an oversized payload was refused with PayloadTooLarge on a
\* non-forced request made inside the rate-limit window opened by a real
\* reading
C10_Witness ==
    /\ result.op = "submit_reading"
    /\ result.status = "PayloadTooLarge"
    /\ ~result.input.force
    /\ devices[result.device_id].last_reading_at = Some(clock)
    /\ \A i \in LatestReadings(result.device_id) : ~is_simulated(readings[i])

\* The ledger rows of a refresh token, whatever their state
RecordsOf(refresh_token) ==
    {id \in DOMAIN refresh_tokens :
        /\ refresh_tokens[id].user_id = refresh_token.sub
        /\ refresh_tokens[id].token_jti = refresh_token.jti}

\* A refresh token is valid: its user is present, it has not been logged
\* out, its ledger record is unexpired and carries the hash of the token
ValidRefreshToken(refresh_token) ==
    /\ refresh_token.sub \in DOMAIN users
    /\ refresh_token \notin history.logged_out
    /\ \E id \in RecordsOf(refresh_token) :
          /\ refresh_tokens[id].expires_at >= clock
          /\ verify_secret(refresh_token, refresh_tokens[id].token_hash)

Answered(refresh_token) ==
    {w \in DOMAIN workers :
        /\ workers[w].refresh_token = refresh_token
        /\ workers[w].pc = "closed"}

\* C2 as stated: of the Refresh requests presenting the same valid refresh
\* token, interleaved in any way, at most one succeeds, the others are
\* answered Unauthorized, and the token yields at most one new pair.
C2_ExactlyOneSuccess ==
    \A refresh_token \in refresh_issued :
        LET succeeded == {w \in Answered(refresh_token) :
                             workers[w].status = "OK"}
        IN /\ Cardinality(succeeded) <= 1
           /\ \A w \in Answered(refresh_token) \ succeeded :
                 workers[w].status = "Unauthorized"

\* The rows of a device in insertion order, and the last of them
RowsOf(device_id) == SelectSeq(readings, LAMBDA r : r.device_id = device_id)
LastRowOf(device_id) == RowsOf(device_id)[Len(RowsOf(device_id))]

\* The last operation on the device was an accepted real reading, received
\* less than min_seconds_between_readings ago
InsideRealWindow(device_id) ==
    /\ device_id \in DOMAIN devices
    /\ DeviceReadings(device_id) # {}
    /\ ~is_simulated(LastRowOf(device_id))
    /\ devices[device_id].last_reading_at
          = Some(LastRowOf(device_id).received_at)
    /\ clock - LastRowOf(device_id).received_at
          < min_seconds_between_readings * TicksPerSecond

\* A real reading of acceptable size got past device authorization
RealReadingSubmitted ==
    /\ result'.op = "submit_reading"
    /\ result'.status \notin {"Unauthorized", "Forbidden", "PayloadTooLarge"}
    /\ result'.input.payload.sim # "true"

\* C11 as stated: a real reading submitted less than
\* min_seconds_between_readings after an accepted real reading of the same
\* device, with no other operation on the device in between, is answered
\* RateLimited.
C11_SecondRealRateLimited ==
    [][\A d \in DOMAIN devices :
          (RealReadingSubmitted /\ result'.device_id = d /\ InsideRealWindow(d))
             => result'.status = "RateLimited"]_vars

\* C11 amended: the same, provided no simulated reading of the device
\* carries the received time of the accepted real reading; with such a tie
\* the answer follows the row the last-reading query returns.
C11_SecondRealRateLimitedNoTie ==
    [][\A d \in DOMAIN devices :
          (/\ RealReadingSubmitted
           /\ result'.device_id = d
           /\ InsideRealWindow(d)
           /\ \A i \in LatestReadings(d) : ~is_simulated(readings[i]))
             => /\ result'.status = "RateLimited"
                /\ readings' = readings
                /\ devices' = devices]_vars

\* C11 witness: a second real reading was refused with RateLimited one tick
\* after the first was accepted
C11_Witness ==
    /\ result.op = "submit_reading"
    /\ result.status = "RateLimited"
    /\ InsideRealWindow(result.device_id)
    /\ LastRowOf(result.device_id).received_at = clock - 1

\* C12: a non-forced create_reading is never answered RateLimited when the
\* device's most recent reading by received time is simulated, however
\* short the time since the device's last-reading timestamp.
C12_SimulatedLastNeverLimits ==
    [][\A d \in DOMAIN devices :
          (/\ result'.op = "submit_reading"
           /\ result'.device_id = d
           /\ ~result'.input.force
           /\ LatestReadings(d) # {}
           /\ \A i \in LatestReadings(d) : is_simulated(readings[i]))
             => result'.status # "RateLimited"]_vars

\* C12 witness: a real reading was accepted at the very time of the
\* device's last-reading timestamp, set by a simulated reading
C12_Witness ==
    /\ result.op = "submit_reading"
    /\ result.status = "Created"
    /\ ~result.input.force
    /\ \E i \in DeviceReadings(result.device_id) :
          /\ is_simulated(readings[i])
          /\ readings[i].received_at = clock
          /\ i < Len(readings)
    /\ ~is_simulated(readings[Len(readings)])
    /\ Cardinality(RealReadings) = 1

\* Refresh of the token would succeed in the current state
RefreshWouldSucceed(refresh_token) ==
    LET looked == refresh_lookup(refresh_token, clock)
    IN /\ looked.entry # None
       /\ \A id \in DOMAIN refresh_tokens : id = looked.entry[1] =>
             /\ refresh_entry_check(refresh_token, refresh_tokens[id], clock)
                   = "ok"
             /\ refresh_tokens[id].user_id \in DOMAIN users

\* C13: Logout with a decodable refresh token whose subject is not the
\* calling user is answered Forbidden and changes no ledger record, so a
\* token its owner could refresh before the call can still be refreshed.
C13_LogoutOfForeignToken ==
    [][(/\ result'.op = "logout"
        /\ decode_token(result'.input.refresh_token, "user_refresh", clock).ok
        /\ result'.input.refresh_token.sub # result'.input.user_id)
          => /\ result'.status = "Forbidden"
             /\ refresh_tokens' = refresh_tokens
             /\ \A t \in refresh_issued :
                   (t = result'.input.refresh_token /\ RefreshWouldSucceed(t))
                      => RefreshWouldSucceed(t)']_vars

\* C13 witness: a user's Logout with another user's refreshable token was
\* refused
C13_Witness ==
    /\ result.op = "logout"
    /\ result.status = "Forbidden"
    /\ result.input.user_id \in DOMAIN users
    /\ RefreshWouldSucceed(result.input.refresh_token)

\* C14 as stated: Logout by the owner of a token whose ledger record is
\* already revoked is answered AlreadyLoggedOut; Logout succeeds only when
\* a non-revoked record of the token exists.
C14_LogoutOfRevokedToken ==
    [][(/\ result'.op = "logout"
        /\ decode_token(result'.input.refresh_token, "user_refresh", clock).ok
        /\ result'.input.refresh_token.sub = result'.input.user_id)
          => IF ActiveEntries(result'.input.user_id,
                              result'.input.refresh_token.jti) = {}
             THEN /\ result'.status = "BadRequest"
                  /\ result'.input.detail = "AlreadyLoggedOut"
             ELSE result'.status = "OK"]_vars

\* C15: revocation is permanent.  No step turns the revoked flag of a
\* ledger record from true to false, and no Refresh succeeds with a token
\* whose record is revoked (by rotation or by Logout), expired or gone.
C15_RevocationPermanent ==
    [][/\ \A id \in DOMAIN refresh_tokens \cap DOMAIN refresh_tokens' :
             refresh_tokens[id].revoked =>
                /\ refresh_tokens'[id].revoked
                /\ refresh_tokens'[id].token_jti = refresh_tokens[id].token_jti
       /\ (result'.op = "refresh" /\ result'.status = "OK") =>
             \E id \in RecordsOf(result'.input.refresh_token) :
                /\ ~refresh_tokens[id].revoked
                /\ refresh_tokens[id].expires_at >= clock]_vars

\* C15 witness: Refresh refused a token that Logout had revoked, and that
\* had never been refreshed, while its record was still unexpired
C15_Witness ==
    /\ result.op = "refresh"
    /\ result.status = "Unauthorized"
    /\ result.input.detail = "inactive"
    /\ result.input.refresh_token \in history.logged_out
    /\ history.first_refresh[result.input.refresh_token] = "Unauthorized"
    /\ \E id \in RecordsOf(result.input.refresh_token) :
          /\ refresh_tokens[id].revoked
          /\ refresh_tokens[id].expires_at >= clock

\* The record Refresh finds for the token is expired or does not carry the
\* token's hash
FoundRecordFails(refresh_token, id) ==
    /\ id \in ActiveEntries(refresh_token.sub, refresh_token.jti)
    /\ \/ refresh_tokens[id].expires_at < clock
       \/ ~verify_secret(refresh_token, refresh_tokens[id].token_hash)

\* C16 as stated: a Refresh call whose ledger record is expired, or whose
\* token does not verify against the stored hash, is answered Unauthorized,
\* issues no token pair and leaves the record revoked.
C16_FailedCheckRevokes ==
    [][result'.op = "refresh" =>
          \A id \in DOMAIN refresh_tokens :
             FoundRecordFails(result'.input.refresh_token, id) =>
                /\ result'.status = "Unauthorized"
                /\ refresh_issued' = refresh_issued
                /\ refresh_tokens'[id].revoked]_vars

\* C16 amended: the same for a token that still decodes; a token whose own
\* exp has passed is answered Unauthorized at decode, issues no token pair
\* and leaves the ledger as it was.
C16_FailedCheckRevokesDecoded ==
    [][result'.op = "refresh" =>
          \A id \in DOMAIN refresh_tokens :
             FoundRecordFails(result'.input.refresh_token, id) =>
                /\ result'.status = "Unauthorized"
                /\ result'.input.pair = None
                /\ refresh_issued' = refresh_issued
                /\ refresh_tokens' =
                      IF decode_token(result'.input.refresh_token,
                                      "user_refresh", clock).ok
                      THEN [refresh_tokens EXCEPT ![id].revoked = TRUE]
                      ELSE refresh_tokens]_vars

\* C16 witness: Refresh refused an unexpired token whose record carries
\* another hash, and the record is revoked
C16_Witness ==
    /\ result.op = "refresh"
    /\ result.status = "Unauthorized"
    /\ result.input.detail = "rejected"
    /\ \E id \in RecordsOf(result.input.refresh_token) :
          /\ refresh_tokens[id].revoked
          /\ refresh_tokens[id].token_hash = hash_secret(OtherToken)
          /\ refresh_tokens[id].expires_at >= clock

\* The users a Login with these credentials is for: the address, lowered, is
\* theirs and the password is the one they registered with
Holders(email, password) ==
    {u \in DOMAIN users :
        /\ users[u].email = lower(email)
        /\ history.credentials[u] = password}

\* C17 as stated: Login with the credentials a user registered with
\* succeeds, adds one non-revoked ledger row for that user and returns an
\* access token with the user's stored role; Login with an unknown address
\* or a wrong password is answered Unauthorized and adds nothing.
C17_LoginOutcome ==
    [][result'.op = "login" =>
          LET holders == Holders(result'.input.email, result'.input.password)
              added == DOMAIN refresh_tokens' \ DOMAIN refresh_tokens
          IN IF holders = {}
             THEN /\ result'.status = "Unauthorized"
                  /\ refresh_tokens' = refresh_tokens
                  /\ refresh_issued' = refresh_issued
             ELSE /\ result'.status = "OK"
                  /\ Cardinality(added) = 1
                  /\ \A id \in added, u \in holders :
                        /\ refresh_tokens'[id].user_id = u
                        /\ ~refresh_tokens'[id].revoked
                        /\ result'.input.pair[1].access_token.role
                              = Some(users[u].role)]_vars

\* Case folding of the addresses the model uses
CaseFolded(email) ==
    CASE email = "A@X.COM" -> "a@x.com"
      [] email = "B@X.COM" -> "b@x.com"
      [] email = "ADMIN@EXAMPLE.COM" -> "admin@example.com"
      [] OTHER -> email

\* C18: Register with an address that, compared case-insensitively, already
\* belongs to a user is answered BadRequest (AlreadyExists) and creates
\* nothing; no two users have the same case-folded address.
C18_UniqueEmail ==
    [][/\ result'.op = "register" =>
             IF \E u \in DOMAIN users :
                   CaseFolded(users[u].email) = CaseFolded(result'.input.email)
             THEN /\ result'.status = "BadRequest"
                  /\ users' = users
                  /\ refresh_tokens' = refresh_tokens
             ELSE result'.status = "Created"
       /\ \A u, v \in DOMAIN users' :
             CaseFolded(users'[u].email) = CaseFolded(users'[v].email)
                => u = v]_vars

\* C18 witness: an address differing only in case from a registered one was
\* refused
C18_Witness ==
    /\ result.op = "register"
    /\ result.status = "BadRequest"
    /\ result.input.email = "A@X.COM"
    /\ \E u \in DOMAIN users : users[u].email = "a@x.com"

DeniedByGate(r, now) ==
    \/ /\ r.op \in {"refresh", "logout"}
       /\ ~decode_token(r.input.refresh_token, "user_refresh", now).ok
    \/ /\ r.op = "submit_reading"
       /\ r.input.credentials # None
       /\ ~decode_token(r.input.credentials[1], "device_access", now).ok
    \/ /\ r.op \in {"submit_reading", "simulator_emit"}
       /\ r.status \in {"PayloadTooLarge", "RateLimited"}

\* C20 as stated: every rejection caused by a token that does not decode
\* (Refresh, Logout, device-token authorization), by the payload size limit
\* or by the rate limit adds a security event with status denied.
C20_DenialsLogged ==
    [][(events_writable /\ DeniedByGate(result', clock)) =>
          \E i \in 1..Len(security_events') :
             security_events'[i].status = "denied"]_vars

\* C21: a token minted as one class is rejected by decode_token when
\* another class is expected, whatever the signing keys, equal keys
\* included; a token decodes only as the class it was minted as.
C21_TokenClassesDisjoint ==
    [][result'.op = "decode_token" =>
          (result'.status = "OK" =>
              result'.input.token.token_type = result'.input.expected_type)]_vars

\* C21 witness: with one key for both classes, a refresh token presented
\* where an access token is expected was rejected for its class
C21_Witness ==
    /\ result.op = "decode_token"
    /\ result.input.token.token_type = "user_refresh"
    /\ result.input.expected_type = "user_access"
    /\ result.input.settings.jwt_secret_key
          = result.input.settings.jwt_refresh_secret_key
    /\ result.status = "WrongAudience"

\* The requester is neither the owner of the device nor an admin
Stranger(device_id, requester) ==
    /\ device_id \in DOMAIN devices
    /\ devices[device_id].owner_id # requester
    /\ users[requester].role # "admin"

\* A lifecycle operation or a readings query on the device by the requester
DeviceOperationBy(device_id, requester) ==
    \/ GetDevice(device_id, requester)
    \/ DeactivateDevice(device_id, requester)
    \/ DeleteDevice(device_id, requester)
    \/ RotateDeviceSecret(device_id, requester)
    \/ InvalidateDeviceTokens(device_id, requester)
    \/ \E name \in NewNames, status \in NewStatuses :
          UpdateDevice(device_id, requester, name, None, status, 0)
    \/ \E limit \in Limits, include_simulated \in BOOLEAN :
          ListDeviceReadings(device_id, requester, limit, include_simulated)
    \/ \E include_simulated \in BOOLEAN :
          DeviceReadingsMeta(device_id, requester, include_simulated)

\* C22: every device lifecycle operation and readings query by a requester
\* who is neither the device's owner nor an admin is answered Forbidden and
\* leaves the device and its readings unchanged.
C22_StrangerForbidden ==
    [][\A device_id \in DeviceIds, requester \in DOMAIN users :
          (Stranger(device_id, requester)
             /\ DeviceOperationBy(device_id, requester))
          => /\ result'.status = "Forbidden"
             /\ devices' = devices
             /\ readings' = readings]_vars

\* C22 witness: a stranger asked for the readings of a device that has
\* readings and was refused
C22_Witness ==
    /\ result.op = "list_readings"
    /\ result.status = "Forbidden"
    /\ Stranger(result.device_id, result.input.requester)
    /\ DeviceReadings(result.device_id) # {}

\* C23: once the secret of a device was rotated and no reading has been
\* accepted since, a reading within the size limit submitted with a token
\* of the new secret is accepted and persisted, also inside the minimum
\* interval after the last real reading; a token of an earlier version is
\* answered Unauthorized and nothing is written.
C23_FreshStartAfterRotation ==
    [][(/\ result'.op = "submit_reading"
        /\ result'.input.credentials # None
        /\ decode_token(result'.input.credentials[1], "device_access",
                        clock).ok
        /\ result'.input.credentials[1].sub \in history.rotated) =>
          LET token == result'.input.credentials[1]
              device == devices[token.sub]
          IN IF token.token_version[1] # device.token_version
             THEN /\ result'.status = "Unauthorized"
                  /\ readings' = readings
                  /\ devices' = devices
             ELSE payload_size(result'.input.payload)
                     <= data_payload_limit_bytes
                  => /\ result'.status = "Created"
                     /\ Len(readings') = Len(readings) + 1
                     /\ readings'[Len(readings')].device_id = token.sub
                     /\ ~is_simulated(readings'[Len(readings')])]_vars

\* C23 witness: a real reading was accepted inside the minimum interval after
\* another real reading of the device, with no simulator emission, the secret
\* having been rotated in between
C23_Witness ==
    /\ result.op = "submit_reading"
    /\ result.status = "Created"
    /\ result.device_id \in DOMAIN devices
    /\ devices[result.device_id].token_version >= 2
    /\ sequence_of(result.device_id) = 0
    /\ \E i, j \in RealReadings :
          /\ i < j
          /\ j = Len(readings)
          /\ readings[i].device_id = result.device_id
          /\ readings[j].device_id = result.device_id
          /\ readings[j].received_at - readings[i].received_at
                < min_seconds_between_readings * TicksPerSecond

\* Requests of the version-bumping operations that completed on the device
Completed(device_id) ==
    {w \in DOMAIN workers :
        workers[w].pc = "closed" /\ workers[w].device_id = device_id}

\* C24 as stated: when k of deactivate_device, rotate_secret and
\* invalidate_tokens have completed on a device, its token_version has
\* increased by exactly k.
C24_NoLostVersionBump ==
    \A device_id \in DOMAIN devices :
       devices[device_id].token_version
          = new_device(2, "Sensor", "weather_station",
                       generate_device_secret(0)).token_version
            + Cardinality(Completed(device_id))

\* C25 as stated: of two real submissions for one device whose latest
\* reading is a real one, made less than the minimum interval apart, at most
\* one is accepted and persisted.
C25_OneAcceptedPerWindow ==
    \A k, i, j \in RealReadings :
       (/\ k < i /\ i < j
        /\ readings[k].device_id = readings[i].device_id
        /\ readings[i].device_id = readings[j].device_id
        /\ readings[k].received_at <= readings[i].received_at)
       => readings[j].received_at - readings[i].received_at
             >= min_seconds_between_readings * TicksPerSecond

\* C26 as stated: a device that is blocked or deleted when its turn in a
\* tick comes is skipped, no simulated reading is written for it and the
\* tick goes on; when a tick starts, no scheduling state is kept for a
\* device that is not active.
C26_SimulatorSkipsInactive ==
    [][/\ (/\ result'.op = "simulator_emit"
           /\ \/ result'.device_id \notin DOMAIN devices
              \/ devices[result'.device_id].status # "active")
          => /\ result'.status # "InternalError"
             /\ Len(readings') = Len(readings)
             /\ workers'[1].pc = "running"
       /\ result'.op = "simulator_tick" /\ result'.status = "Started"
          => DOMAIN sim_sequence' \subseteq ActiveDevices]_vars

\* C27 as stated: after stop() has returned no further simulated reading is
\* written.
C27_NoWriteAfterStop ==
    [][workers[1].stop = "returned" =>
          \/ Len(readings') <= Len(readings)
          \/ ~is_simulated(readings'[Len(readings')])]_vars

\* C28 as stated: in every reachable state each device's owner and each
\* refresh-token record's user is an existing user.
C28_OwnersExist ==
    /\ \A d \in DOMAIN devices : devices[d].owner_id \in DOMAIN users
    /\ \A id \in DOMAIN refresh_tokens :
          refresh_tokens[id].user_id \in DOMAIN users

\* C29: a create_reading that fails with PayloadTooLarge or RateLimited
\* persists no reading and leaves the last-reading timestamp of every device
\* as it was.
C29_RejectedReadingNoEffect ==
    [][(/\ result'.op \in {"submit_reading", "simulator_emit"}
        /\ result'.status \in {"PayloadTooLarge", "RateLimited"})
       => /\ readings' = readings
          /\ \A d \in DOMAIN devices :
                /\ d \in DOMAIN devices'
                /\ devices'[d].last_reading_at = devices[d].last_reading_at]_vars

\* a real submission was rate limited while the device had a last-reading
\* timestamp older than the current time
C29_Witness ==
    /\ result.op = "submit_reading"
    /\ result.status = "RateLimited"
    /\ devices[result.device_id].last_reading_at # None
    /\ devices[result.device_id].last_reading_at[1] < clock

NonRevokedOf(table, user_id) ==
    {id \in DOMAIN table : table[id].user_id = user_id /\ ~table[id].revoked}

\* C30 as stated: the step of a successful Refresh revokes the presented
\* record, adds exactly one record, non-revoked and of the same user, and
\* changes no other record, so the user's number of non-revoked records is
\* unchanged; the step of a failed Refresh adds no record.  The step of a
\* successful Refresh is the one that sets its answer.
C30_RefreshRotatesOneForOne ==
    [][result'.op = "refresh" =>
          LET refresh_token == result'.input.refresh_token
              user_id == refresh_token.sub
              added == DOMAIN refresh_tokens' \ DOMAIN refresh_tokens
          IN IF result'.status = "OK"
             THEN result' # result =>
                  /\ Cardinality(added) = 1
                  /\ \A id \in added :
                        /\ refresh_tokens'[id].user_id = user_id
                        /\ ~refresh_tokens'[id].revoked
                  /\ \A id \in DOMAIN refresh_tokens :
                        /\ id \in DOMAIN refresh_tokens'
                        /\ IF id \in RecordsOf(refresh_token)
                           THEN refresh_tokens'[id] =
                                   [refresh_tokens[id] EXCEPT !.revoked = TRUE]
                           ELSE refresh_tokens'[id] = refresh_tokens[id]
                  /\ Cardinality(NonRevokedOf(refresh_tokens', user_id))
                        = Cardinality(NonRevokedOf(refresh_tokens, user_id))
             ELSE added = {}]_vars

\* C31: the outcome of a submitted reading and the last-reading timestamp it
\* leaves are determined by the device row, the payload and the time of
\* receipt; the device_timestamp of the request only lands in the stored row.
C31_DeviceTimestampIgnored ==
    [][(/\ result'.op = "submit_reading"
        /\ result'.status \in {"Created", "RateLimited", "PayloadTooLarge"})
       => LET d == result'.device_id
              payload == result'.input.payload
          IN /\ result'.status \in
                   {create_reading_decision(devices[d], payload, clock, FALSE,
                                            last_reading) :
                       last_reading \in LastReadingChoices(d)}
             /\ IF result'.status = "Created"
                THEN /\ devices'[d].last_reading_at = Some(clock)
                     /\ \E device_timestamp \in DeviceTimestamps :
                           readings' = Append(readings,
                              new_reading(d, payload, device_timestamp, clock,
                                          FALSE))
                ELSE devices' = devices /\ readings' = readings]_vars

\* a reading was accepted whose device timestamp is not the time of receipt,
\* and a later one of the same device was rate limited
C31_Witness ==
    /\ result.op = "submit_reading"
    /\ result.status = "RateLimited"
    /\ \E i \in DOMAIN readings :
          /\ readings[i].device_id = result.device_id
          /\ ~is_simulated(readings[i])
          /\ readings[i].device_timestamp # None
          /\ readings[i].device_timestamp[1] # readings[i].received_at

\* C32: one _request call sends the request at most twice and refreshes at
\* most once; a 401 answer to an authenticated request is followed by one
\* refresh and, when the refresh succeeds, by one resend that carries the new
\* access token, also when the resend is answered 401; any other first answer
\* is followed by neither.
C32_OneRefreshOneRetry ==
    [][result'.op \in {"client_call", "client_logout"} =>
          LET input == result'.input
          IN /\ Len(input.sent) <= 2
             /\ input.refreshed <= 1
             /\ IF /\ Len(input.sent) >= 1
                   /\ ~input.first.raised
                   /\ input.first.status_code = 401
                THEN /\ input.refreshed = 1
                     /\ input.refresh_ok =
                           (~input.refresh.raised
                              /\ input.refresh.status_code = 200)
                     /\ IF input.refresh_ok
                        THEN /\ Len(input.sent) = 2
                             /\ input.sent[2] =
                                   Some(input.refresh.data[1].access_token)
                        ELSE Len(input.sent) = 1
                ELSE input.refreshed = 0 /\ Len(input.sent) <= 1]_vars

\* a call whose first answer and whose resend were both 401, with a
\* successful refresh between them
C32_Witness ==
    /\ result.op = "client_call"
    /\ Len(result.input.sent) = 2
    /\ result.input.refresh_ok
    /\ ~result.input.second.raised
    /\ result.input.second.status_code = 401
    /\ result.input.error = Some(401)

\* C33: a token refresh answered with a status other than 200 or not
\* answered at all reports failure and leaves the client without access
\* token, refresh token and user session; so does every logout, whatever the
\* server answered.
C33_FailedRefreshClearsSession ==
    [][/\ (/\ result'.op \in {"client_call", "client_logout"}
           /\ result'.input.refreshed >= 1
           /\ \/ result'.input.refresh.raised
              \/ result'.input.refresh.status_code # 200)
          => /\ ~result'.input.refresh_ok
             /\ workers'[1] = ApiClient(None, None, None)
       /\ result'.op = "client_logout"
          => workers'[1] = ApiClient(None, None, None)]_vars

\* a logged-in client met a 401 and its refresh was refused
C33_Witness ==
    /\ result.op = "client_call"
    /\ result.input.refreshed = 1
    /\ ~result.input.refresh_ok
    /\ result.input.sent # <<>>
    /\ result.input.sent[1] # None
    /\ workers[1] = ApiClient(None, None, None)

Admins(table) == {u \in DOMAIN table : table[u].role = "admin"}

\* C34: ensure_admin_exists adds a user only when no user has the admin
\* role, what it adds is the bootstrap admin, and a call that follows it
\* finds nothing to change.
C34_EnsureAdminIdempotent ==
    [][result'.op = "ensure_admin_exists" =>
          /\ Admins(users) # {} => users' = users
          /\ users' # users =>
                /\ Admins(users) = {}
                /\ \E id \in DOMAIN users' \ DOMAIN users :
                      /\ DOMAIN users' = DOMAIN users \cup {id}
                      /\ users'[id] = bootstrap_admin
                /\ \A u \in DOMAIN users : users'[u] = users[u]
          /\ ensure_admin_exists(users') = users'
          /\ ensure_admin_exists(ensure_admin_exists(users))
                = ensure_admin_exists(users)]_vars

\* a start of the application created the bootstrap admin next to users who
\* were there before
C34_Witness ==
    /\ result.op = "ensure_admin_exists"
    /\ result.status = "Created"
    /\ Cardinality(DOMAIN users) >= 2
    /\ Cardinality(Admins(users)) = 1

\* C35 as stated: a reading accepted through SubmitReading is never
\* classified as simulated, whatever its payload contains.
C35_SubmittedNeverSimulated ==
    [][(result'.op = "submit_reading" /\ result'.status = "Created")
       => ~is_simulated(readings'[Len(readings')])]_vars

\* C36 as stated: update_device never moves a device's last-reading
\* timestamp backwards while readings newer than it exist.
C36_UpdateKeepsLastReading ==
    [][(/\ result'.op = "update_device"
        /\ result'.device_id \in DOMAIN devices
        /\ devices[result'.device_id].last_reading_at # None)
       => LET d == result'.device_id
              before == devices[d].last_reading_at[1]
          IN /\ devices'[d].last_reading_at # None
             /\ \/ devices'[d].last_reading_at[1] >= before
                \/ \A i \in DOMAIN readings' :
                      readings'[i].device_id = d =>
                         readings'[i].received_at
                            <= devices'[d].last_reading_at[1]]_vars

\* C37 as stated: an update_device that fails (status deleted was asked for)
\* leaves the stored devices and readings unchanged, and no stored device
\* has status deleted.
C37_FailedUpdateChangesNothing ==
    [][/\ (result'.op = "update_device" /\ result'.status = "BadRequest")
          => devices' = devices /\ readings' = readings
       /\ \A d \in DOMAIN devices' : devices'[d].status # "deleted"]_vars

\* The simulator threads that have been started and have not ended
Alive == {t \in DOMAIN workers : workers[t].pc \in {"sleeping", "running"}}

\* C38 as stated: at most one simulator thread runs at any time, under any
\* sequence of start() and stop() calls; a start() while a thread is alive or
\* with the simulation disabled starts nothing.
C38_AtMostOneThread ==
    /\ Cardinality(Alive) <= 1
    /\ ~workers[1].enabled => Alive = {}

\* delete_user cascades to the refresh-token rows of the user and nothing
\* else removes a row: the user a client signed in as has been deleted when
\* the row of the client's refresh token is gone
SignedInUserDeleted(w) ==
    \A id \in DOMAIN refresh_tokens :
       refresh_tokens[id].token_jti # workers[w].refresh_token[1].jti

\* C39 as stated: an access token passes require_admin only while the stored
\* role of its user is admin, whatever role the token carries, and the
\* access token of a user who has been deleted no longer authenticates.
C39_AdminFollowsStoredRole ==
    [][result'.op = "list_security_events" =>
          /\ result'.status = "OK" =>
                /\ result'.input.token.sub \in DOMAIN users
                /\ users[result'.input.token.sub].role = "admin"
          /\ (/\ result'.input.token.sub \in DOMAIN users
              /\ users[result'.input.token.sub].role # "admin")
                => result'.status # "OK"
          /\ SignedInUserDeleted(result'.input.session)
                => result'.status = "Unauthorized"]_vars

\* The stored readings of a device that are not simulated
NonSimulated(device_id) ==
    {readings[i] : i \in {j \in DeviceReadings(device_id) :
                             ~is_simulated(readings[j])}}

\* C40 as stated: list_readings with include_simulated=false returns the
\* min(limit, R) most recent non-simulated readings of the device, R being
\* the number of such readings; simulated readings never reduce the number
\* of real readings returned.
C40_PageOfRealReadings ==
    [][(/\ result'.op = "list_readings"
        /\ result'.status = "OK"
        /\ ~result'.input.include_simulated)
       => LET real == NonSimulated(result'.device_id)
              rows == result'.input.rows
          IN /\ rows \subseteq real
             /\ Cardinality(rows) =
                   Min(Min(result'.input.limit, max_readings_page_size),
                       Cardinality(real))
             /\ \A r \in rows, q \in real \ rows :
                   r.received_at >= q.received_at]_vars

====
